---------------------------- MODULE Spec2Model ----------------------------
(***************************************************************************)
(* A model of kvin.js (wesgarland/kvin): the prepare/unprepare engine, the *)
(* typed-array packing codecs and the wire envelope.                       *)
(*                                                                         *)
(* JavaScript values are records tagged by the field t.  Objects that have *)
(* identity live in a heap (a sequence of records) and are denoted by      *)
(* references; prepared nodes and parsed JSON are inline trees.  Text      *)
(* strings are sequences of one-character strings (field s), binary        *)
(* strings are sequences of UTF-16 code units (field u).  Property maps    *)
(* are sequences of <<key, value>> pairs in insertion order.               *)
(***************************************************************************)
EXTENDS Integers, Sequences, FiniteSets, TLC

VARIABLES
  pc,      \* position of the calling program
  kvin,    \* the codec instance: its configuration properties
  heap,    \* the caller's value graph (objects with identity)
  what,    \* the value handed to serialize / marshal, or the wire input
  wire,    \* what the encoder produced (text or envelope) or the decoder is given
  out      \* what the last operation returned or raised

vars == <<pc, kvin, heap, what, wire, out>>

---------------------------------------------------------------------------
(* Values *)

Undefined == [t |-> "undefined"]
Null      == [t |-> "null"]
Bool(b)   == [t |-> "boolean", b |-> b]
Num(n)    == [t |-> "number", n |-> n]            \* a finite number other than -0
NaN       == [t |-> "number", x |-> "NaN"]
PosInf    == [t |-> "number", x |-> "Infinity"]
NegInf    == [t |-> "number", x |-> "-Infinity"]
NegZero   == [t |-> "number", x |-> "-0"]
BigInt(n) == [t |-> "bigint", g |-> n]
Str(cs)   == [t |-> "string", s |-> cs]           \* text
BStr(us)  == [t |-> "string", u |-> us]           \* binary string of code units
Obj(kv)   == [t |-> "obj", kv |-> kv]             \* inline object
Arr(el)   == [t |-> "arr", el |-> el]             \* inline dense array
Ref(r)    == [t |-> "ref", r |-> r]               \* object with identity

IsNum(v)    == v.t = "number"
IsFinite(v) == IsNum(v) /\ ("n" \in DOMAIN v \/ v = NegZero)
IsText(v)   == v.t = "string" /\ "s" \in DOMAIN v
IsBin(v)    == v.t = "string" /\ "u" \in DOMAIN v

(* JavaScript ===: NaN differs from itself, 0 equals -0, objects by identity *)
StrictEq(a, b) ==
  IF IsNum(a) /\ IsNum(b)
  THEN /\ a # NaN /\ b # NaN
       /\ \/ a = b
          \/ {a, b} = {Num(0), NegZero}
  ELSE a = b

(* Array.prototype.indexOf, 0-based, -1 when absent *)
indexOf(seq, v) ==
  IF \E i \in DOMAIN seq : StrictEq(seq[i], v)
  THEN (CHOOSE i \in DOMAIN seq :
          /\ StrictEq(seq[i], v)
          /\ \A j \in DOMAIN seq : StrictEq(seq[j], v) => i <= j) - 1
  ELSE -1

---------------------------------------------------------------------------
(* Property maps: own enumerable properties in insertion order *)

HasKey(kv, k) == \E i \in DOMAIN kv : kv[i][1] = k
KeyPos(kv, k) == CHOOSE i \in DOMAIN kv : kv[i][1] = k
GetKey(kv, k) == kv[KeyPos(kv, k)][2]
PutKey(kv, k, v) ==
  IF HasKey(kv, k)
  THEN [kv EXCEPT ![KeyPos(kv, k)] = <<k, v>>]
  ELSE Append(kv, <<k, v>>)
DelKey(kv, k) == SelectSeq(kv, LAMBDA e : e[1] # k)

Has(o, k) == o.t = "obj" /\ HasKey(o.kv, k)       \* o.hasOwnProperty(k)
Get(o, k) == GetKey(o.kv, k)
Put(o, k, v) == Obj(PutKey(o.kv, k, v))
Del(o, k) == Obj(DelKey(o.kv, k))

---------------------------------------------------------------------------
(* The heap: objects with identity.  ctor is the name of o.constructor     *)
(* ("" when the object has none); the other fields hold what the object's  *)
(* builtin methods return.                                                 *)

NoToJSON == [t |-> "none"]

HBase == [ctor |-> "Object",      \* o.constructor.name
          kv |-> <<>>,            \* own enumerable properties, in enumeration order
          len |-> 0,              \* Array: length
          bytes |-> <<>>,         \* buffer view: the bytes it covers
          name |-> <<>>,          \* Function: name
          message |-> <<>>,       \* Error: message
          str |-> <<>>,           \* what toString() returns
          json |-> NoToJSON,      \* what toJSON() returns, when there is one
          toKVIN |-> NoToJSON,    \* what toKVIN() returns, when there is one
          hidden |-> <<>>,        \* own non-enumerable properties
          prim |-> Undefined,     \* boxed scalar: its primitive value
          settled |-> Undefined,  \* Promise: the value it fulfils with
          hasOwn |-> TRUE,        \* typeof o.hasOwnProperty !== 'undefined'
          odd |-> FALSE]          \* o.constructor.constructor is neither Object nor Function

HObject(kv)       == [HBase EXCEPT !.kv = kv]
HArray(len, kv)   == [HBase EXCEPT !.ctor = "Array", !.len = len, !.kv = kv]
HView(ctor, bs)   == [HBase EXCEPT !.ctor = ctor, !.bytes = bs]
HNoCtor(kv)       == [HBase EXCEPT !.ctor = "", !.kv = kv]
HFunction(nm, src, kv) ==
  [HBase EXCEPT !.ctor = "Function", !.name = nm, !.str = src, !.kv = kv]

ViewCtors  == {"Int8Array", "Uint8Array", "Uint8ClampedArray", "Int16Array",
               "Uint16Array", "Int32Array", "Uint32Array", "Float32Array",
               "Float64Array", "BigInt64Array", "Buffer"}
BoxedCtors == {"String", "Number", "Boolean"}
ErrorCtors == {"Error", "TypeError", "RangeError"}
FunctionCtors == {"Function", "AsyncFunction"}

(* Pre-defined constructors, used to compact payload *)
ctors == <<"Object", "Int8Array", "Uint8Array", "Uint8ClampedArray", "Int16Array",
           "Uint16Array", "Int32Array", "Uint32Array", "Float32Array",
           "Float64Array", "RegExp", "Number", "String", "Boolean", "Array",
           "Function", "Error", "Promise", "URL">>

(* this.ctors.indexOf(c), for a constructor named nm *)
ctorIndex(nm) ==
  IF \E i \in DOMAIN ctors : ctors[i] = nm
  THEN (CHOOSE i \in DOMAIN ctors : ctors[i] = nm) - 1
  ELSE -1

(* Spelling of the names that occur as text *)
Chars(nm) ==
  CASE nm = "Object"        -> <<"O","b","j","e","c","t">>
    [] nm = "Error"         -> <<"E","r","r","o","r">>
    [] nm = "TypeError"     -> <<"T","y","p","e","E","r","r","o","r">>
    [] nm = "RangeError"    -> <<"R","a","n","g","e","E","r","r","o","r">>
    [] nm = "Date"          -> <<"D","a","t","e">>
    [] nm = "Map"           -> <<"M","a","p">>
    [] nm = "Function"      -> <<"F","u","n","c","t","i","o","n">>
    [] nm = "AsyncFunction" -> <<"A","s","y","n","c","F","u","n","c","t","i","o","n">>
    [] nm = "String"        -> <<"S","t","r","i","n","g">>
    [] nm = "BigInt64Array" -> <<"B","i","g","I","n","t","6","4","A","r","r","a","y">>
    [] nm = "Buffer"        -> <<"B","u","f","f","e","r">>
    [] nm = "MyClass"       -> <<"M","y","C","l","a","s","s">>
    [] nm = "Int8Array"       -> <<"I","n","t","8","A","r","r","a","y">>
    [] nm = "Uint8Array"      -> <<"U","i","n","t","8","A","r","r","a","y">>
    [] nm = "Uint8ClampedArray" -> <<"U","i","n","t","8","C","l","a","m","p","e","d","A","r","r","a","y">>
    [] nm = "Int16Array"      -> <<"I","n","t","1","6","A","r","r","a","y">>
    [] nm = "Uint16Array"     -> <<"U","i","n","t","1","6","A","r","r","a","y">>
    [] nm = "Int32Array"      -> <<"I","n","t","3","2","A","r","r","a","y">>
    [] nm = "Uint32Array"     -> <<"U","i","n","t","3","2","A","r","r","a","y">>
    [] nm = "Float32Array"    -> <<"F","l","o","a","t","3","2","A","r","r","a","y">>
    [] nm = "Float64Array"    -> <<"F","l","o","a","t","6","4","A","r","r","a","y">>
    [] nm = "RegExp"          -> <<"R","e","g","E","x","p">>
    [] nm = "Number"          -> <<"N","u","m","b","e","r">>
    [] nm = "Boolean"         -> <<"B","o","o","l","e","a","n">>
    [] nm = "Array"           -> <<"A","r","r","a","y">>
    [] nm = "Promise"         -> <<"P","r","o","m","i","s","e">>
    [] nm = "URL"             -> <<"U","R","L">>
    [] nm = "NaN"           -> <<"N","a","N">>
    [] nm = "Infinity"      -> <<"I","n","f","i","n","i","t","y">>
    [] nm = "-Infinity"     -> <<"-","I","n","f","i","n","i","t","y">>
    [] nm = "-0"            -> <<"-","0">>
    [] nm = "null"          -> <<"n","u","l","l">>
    [] nm = "undefined"     -> <<"u","n","d","e","f","i","n","e","d">>
    [] nm = "length"        -> <<"l","e","n","g","t","h">>
    [] nm = "true"          -> <<"t","r","u","e">>
    [] nm = "false"         -> <<"f","a","l","s","e">>
    [] nm = "1.5"           -> <<"1",".","5">>
    [] OTHER                -> <<>>

(* Largest array index the model spells as a property key *)
MaxIndex == 12
IdxKey(i) == ToString(i)
IsIdxKey(k) == \E i \in 0..MaxIndex : IdxKey(i) = k
KeyIdx(k) == CHOOSE i \in 0..MaxIndex : IdxKey(i) = k

IsRef(v) == v.t = "ref"
IsLive(h, v) == IsRef(v) /\ v.r \in DOMAIN h

TypeOf(h, v) ==
  CASE v.t \in {"null", "obj", "arr"} -> "object"
    [] v.t = "ref" -> IF IsLive(h, v) /\ h[v.r].ctor \in FunctionCtors
                      THEN "function" ELSE "object"
    [] OTHER -> v.t

---------------------------------------------------------------------------
(* Buffer views: element width, and the elements a view shows for its bytes *)

BYTES_PER_ELEMENT(c) ==
  CASE c \in {"Int16Array", "Uint16Array"} -> 2
    [] c \in {"Int32Array", "Uint32Array", "Float32Array"} -> 4
    [] c \in {"Float64Array", "BigInt64Array"} -> 8
    [] OTHER -> 1

RECURSIVE Pow(_, _)
Pow(b, e) == IF e = 0 THEN 1 ELSE b * Pow(b, e - 1)

RECURSIVE WordLE(_)
WordLE(bs) == IF bs = <<>> THEN 0 ELSE bs[1] + 256 * WordLE(Tail(bs))

RECURSIVE BytesLE(_, _)
BytesLE(n, w) == IF w = 0 THEN <<>> ELSE <<n % 256>> \o BytesLE(n \div 256, w - 1)

Signed(n, w) == IF n >= Pow(256, w) \div 2 THEN n - Pow(256, w) ELSE n

(* The IEEE-754 doubles the model names, with their little-endian bytes *)
F64 == << <<Num(0),  <<0, 0, 0, 0, 0, 0, 0, 0>> >>,
          <<Num(1),  <<0, 0, 0, 0, 0, 0, 240, 63>> >>,
          <<NaN,     <<0, 0, 0, 0, 0, 0, 248, 127>> >>,
          <<PosInf,  <<0, 0, 0, 0, 0, 0, 240, 127>> >>,
          <<NegInf,  <<0, 0, 0, 0, 0, 0, 240, 255>> >>,
          <<NegZero, <<0, 0, 0, 0, 0, 0, 0, 128>> >> >>

F64Bytes(v) == F64[CHOOSE i \in DOMAIN F64 : F64[i][1] = v][2]
F64Value(bs) ==
  IF \E i \in DOMAIN F64 : F64[i][2] = bs
  THEN F64[CHOOSE i \in DOMAIN F64 : F64[i][2] = bs][1]
  ELSE [t |-> "number", f |-> bs]      \* some other double, known by its bytes

(* The element at byte offset i (1-based) of a view of type c *)
ViewElement(c, bs) ==
  LET w == BYTES_PER_ELEMENT(c) IN
  CASE c = "Float64Array"  -> F64Value(bs)
    [] c = "Float32Array"  -> [t |-> "number", f |-> bs]
    [] c = "BigInt64Array" ->
         IF \A i \in 4..8 : bs[i] = 0 THEN BigInt(WordLE(SubSeq(bs, 1, 3)))
         ELSE [t |-> "bigint", f |-> bs]   \* some other integer, known by its bytes
    [] c = "Int32Array" ->
         Num(WordLE(SubSeq(bs, 1, 3))
               + 16777216 * (IF bs[4] >= 128 THEN bs[4] - 256 ELSE bs[4]))
    [] c = "Uint32Array" ->
         IF bs[4] < 128 THEN Num(WordLE(bs)) ELSE [t |-> "number", f |-> bs]
    [] c \in {"Int8Array", "Int16Array"} -> Num(Signed(WordLE(bs), w))
    [] OTHER -> Num(WordLE(bs))

(* Array.prototype.slice.call(view): the list of its elements *)
ViewElements(c, bs) ==
  LET w == BYTES_PER_ELEMENT(c) IN
  [i \in 1..(Len(bs) \div w) |-> ViewElement(c, SubSeq(bs, (i - 1) * w + 1, i * w))]

(* ToNumber of a list element given to a typed-array constructor *)
ToNumber(v) ==
  CASE v.t = "null" -> Num(0)
    [] v.t = "undefined" -> NaN
    [] v.t = "boolean" -> IF v.b THEN Num(1) ELSE Num(0)
    [] OTHER -> v

(* The bytes a view of type c stores for the list element v *)
ElementBytes(c, v) ==
  LET w == BYTES_PER_ELEMENT(c) x == ToNumber(v) IN
  IF "f" \in DOMAIN x THEN x.f
  ELSE IF c = "Float64Array" THEN F64Bytes(x)
  ELSE IF x.t = "bigint" THEN BytesLE(x.g, w)
  ELSE IF "n" \notin DOMAIN x THEN BytesLE(0, w)        \* NaN, infinities, -0
  ELSE IF c = "Uint8ClampedArray"
       THEN <<IF x.n < 0 THEN 0 ELSE IF x.n > 255 THEN 255 ELSE x.n>>
  ELSE BytesLE(x.n, w)                                  \* modulo 2^(8w)

RECURSIVE Flatten(_)
Flatten(ss) == IF ss = <<>> THEN <<>> ELSE ss[1] \o Flatten(Tail(ss))

(* new c(list) *)
ViewFromList(c, el) == Flatten([i \in DOMAIN el |-> ElementBytes(c, el[i])])

---------------------------------------------------------------------------
(* JSON.  A JSON text is modelled by the tree JSON.parse builds from it:   *)
(* JSON.stringify fixes the key order and the spelling of every leaf, so   *)
(* two texts are equal exactly when these trees are.  JSONValue is         *)
(* SerializeJSONProperty: [ok, v], v = Undefined where the value is left   *)
(* out, ok = FALSE where stringify throws (cycle, bigint).                 *)

JOk(v) == [ok |-> TRUE, v |-> v]
JThrow == [ok |-> FALSE, v |-> Undefined]

RECURSIVE JSONValue(_, _, _)
JSONList(h, el, stack) ==
  LET list(rs) ==
        IF \E i \in DOMAIN rs : ~rs[i].ok THEN JThrow
        ELSE JOk(Arr([i \in DOMAIN rs |-> IF rs[i].v = Undefined THEN Null ELSE rs[i].v]))
  IN list([i \in DOMAIN el |-> JSONValue(h, el[i], stack)])

JSONProps(h, kv, stack) ==
  LET props(rs) ==
        IF \E i \in DOMAIN rs : ~rs[i].ok THEN JThrow
        ELSE JOk(Obj(SelectSeq([i \in DOMAIN kv |-> <<kv[i][1], rs[i].v>>],
                               LAMBDA e : e[2] # Undefined)))
  IN props([i \in DOMAIN kv |-> JSONValue(h, kv[i][2], stack)])

(* The elements 0..len-1 of a live array; a hole reads as undefined *)
ArrayElements(ob) ==
  [i \in 1..ob.len |-> IF HasKey(ob.kv, IdxKey(i - 1))
                       THEN GetKey(ob.kv, IdxKey(i - 1)) ELSE Undefined]

JSONValue(h, v, stack) ==
  CASE v.t = "undefined" -> JOk(Undefined)
    [] v.t \in {"null", "boolean", "string"} -> JOk(v)
    [] v.t = "number" -> JOk(IF v = NegZero THEN Num(0)
                             ELSE IF IsFinite(v) THEN v ELSE Null)
    [] v.t = "bigint" -> JThrow
    [] v.t = "arr" -> JSONList(h, v.el, stack)
    [] v.t = "obj" -> JSONProps(h, v.kv, stack)
    [] v.t = "ref" ->
         LET ob == h[v.r]
             indexed(el) == [i \in DOMAIN el |-> <<IdxKey(i - 1), el[i]>>]
         IN
         IF v.r \in stack THEN JThrow      \* Converting circular structure to JSON
         ELSE IF ob.json # NoToJSON THEN JSONValue(h, ob.json, stack \cup {v.r})
         ELSE IF ob.ctor \in FunctionCtors THEN JOk(Undefined)
         ELSE IF ob.ctor \in BoxedCtors THEN JOk(ob.prim)
         ELSE IF ob.ctor = "Array" THEN JSONList(h, ArrayElements(ob), stack \cup {v.r})
         ELSE JSONProps(h, IF ob.ctor \in ViewCtors
                           THEN indexed(ViewElements(ob.ctor, ob.bytes))
                           ELSE ob.kv,
                        stack \cup {v.r})

(* JSON.stringify: [ok, v] with v a text, or Undefined when there is none *)
JSON_stringify(h, v) ==
  LET text(r) == IF r.ok /\ r.v # Undefined
                 THEN JOk([t |-> "string", text |-> r.v]) ELSE r
  IN text(JSONValue(h, v, {}))
(* JSON.parse of a text that JSON.stringify produced *)
JSON_parse(text) == text.text

(* Length in code units of the text JSON.stringify writes *)
RECURSIVE Digits(_)
Digits(n) == IF n < 10 THEN 1 ELSE 1 + Digits(n \div 10)
NumberLength(n) == IF n < 0 THEN 1 + Digits(0 - n) ELSE Digits(n)

(* QuoteJSONString: one code unit of a binary string *)
UnitLength(c) ==
  IF c \in {8, 9, 10, 12, 13, 34, 92} THEN 2
  ELSE IF c < 32 THEN 6
  ELSE 1

IsHigh(c) == c >= 55296 /\ c <= 56319      \* \ud800-\udbff
IsLow(c)  == c >= 56320 /\ c <= 57343      \* \udc00-\udfff

(* a surrogate that has no partner is written as a \uXXXX escape *)
QuotedUnit(us, i) ==
  IF IsHigh(us[i]) THEN (IF i < Len(us) /\ IsLow(us[i + 1]) THEN 1 ELSE 6)
  ELSE IF IsLow(us[i]) THEN (IF i > 1 /\ IsHigh(us[i - 1]) THEN 1 ELSE 6)
  ELSE UnitLength(us[i])

RECURSIVE SumTo(_, _)
SumTo(f, n) == IF n = 0 THEN 0 ELSE f[n] + SumTo(f, n - 1)
Sum(f) == SumTo(f, Len(f))

StringLength(v) ==
  IF IsBin(v) THEN 2 + Sum([i \in DOMAIN v.u |-> QuotedUnit(v.u, i)])
  ELSE 2 + Len(v.s)

RECURSIVE JSONLength(_)
JSONLength(v) ==
  CASE v.t = "null" -> 4
    [] v.t = "boolean" -> IF v.b THEN 4 ELSE 5
    [] v.t = "number" -> NumberLength(v.n)
    [] v.t = "string" -> StringLength(v)
    [] v.t = "arr" ->
         2 + Sum([i \in DOMAIN v.el |-> JSONLength(v.el[i])])
           + (IF Len(v.el) > 0 THEN Len(v.el) - 1 ELSE 0)
    [] v.t = "obj" ->
         2 + Sum([i \in DOMAIN v.kv |->
                    Len(v.kv[i][1]) + 3 + JSONLength(v.kv[i][2])])
           + (IF Len(v.kv) > 0 THEN Len(v.kv) - 1 ELSE 0)

---------------------------------------------------------------------------
(* Binary Codec, encoder *)

littleEndian == TRUE          \* the host the model runs on
_vm_fun_maxargs == 100000

(* text nodes are built with the keys in the order the code assigns them *)
ctrOf(c) == IF ctorIndex(c) = -1 THEN Str(Chars(c)) ELSE Num(ctorIndex(c))

(* s.indexOf(n consecutive \u0000) !== -1 *)
HasZeroRun(us, n) ==
  \E i \in 1..(Len(us) - n + 1) : \A j \in i..(i + n - 1) : us[j] = 0

IsLineTerminator(c) == c \in {10, 13, 8232, 8233}

(* The island expression re is  N+ ( D{0,3} ( N | $ ) )*  repeated, where N *)
(* is [^\u0000] and D is the dot.  GapStep is one iteration of the inner   *)
(* group at 1-based position q: the position after it, or 0 when it fails. *)
(* The dots are greedy and match anything but a line terminator; an        *)
(* iteration that matches nothing is rejected.                             *)
GapStep(us, q) ==
  LET end == Len(us) + 1
      dots == CHOOSE m \in 0..3 :
                /\ q + m <= end
                /\ \A i \in q..(q + m - 1) : ~IsLineTerminator(us[i])
                /\ \A m2 \in (m + 1)..3 :
                     ~(q + m2 <= end /\ \A i \in q..(q + m2 - 1) : ~IsLineTerminator(us[i]))
      fits(n) == \/ (q + n < end /\ us[q + n] # 0)
                 \/ (q + n = end /\ n > 0)
  IN IF \E n \in 0..dots : fits(n)
     THEN LET n == CHOOSE n \in 0..dots : fits(n) /\ \A n2 \in (n + 1)..dots : ~fits(n2)
          IN IF q + n < end THEN q + n + 1 ELSE end
     ELSE 0

RECURSIVE GapStar(_, _)
GapStar(us, q) ==
  LET again(next) == IF next = 0 THEN q ELSE GapStar(us, next)
  IN again(GapStep(us, q))

RECURSIVE NonZeroRun(_, _)
NonZeroRun(us, q) == IF q <= Len(us) /\ us[q] # 0 THEN NonZeroRun(us, q + 1) ELSE q

(* re matched at p, where us[p] # 0: the position after the match *)
RECURSIVE IslandEnd(_, _)
IslandEnd(us, p) ==
  LET repeat(q) == IF q <= Len(us) /\ us[q] # 0 THEN IslandEnd(us, q) ELSE q
  IN repeat(GapStar(us, NonZeroRun(us, p)))

(* the match as it is, its trailing zero units kept *)
StripZeroes_kept(us) == us

RECURSIVE StripZeroes(_)
StripZeroes(us) ==            \* island[0].replace: trailing zero units removed
  IF us # <<>> /\ us[Len(us)] = 0 THEN StripZeroes(SubSeq(us, 1, Len(us) - 1)) ELSE us

(* while ((island = re.exec(s))) push({0: ..., '@': island.index}) *)
RECURSIVE Islands(_, _)
Islands(us, from) ==
  IF \E p \in from..Len(us) : us[p] # 0
  THEN LET match(p, e) ==
             <<Obj(<< <<"0", BStr(StripZeroes(SubSeq(us, p, e - 1)))>>,
                      <<"@", Num(p - 1)>> >>)>> \o Islands(us, e)
           exec(p) == match(p, IslandEnd(us, p))
       IN exec(CHOOSE p \in from..Len(us) :
                 us[p] # 0 /\ \A p2 \in from..(p - 1) : us[p2] = 0)
  ELSE <<>>

(* String.fromCharCode.apply over slices of at most mss bytes, joined *)
Latin1(bs) ==
  LET mss == _vm_fun_maxargs - 1
      n   == (Len(bs) + mss - 1) \div mss
  IN Flatten([i \in 1..n |->
                SubSeq(bs, (i - 1) * mss + 1,
                       IF i * mss < Len(bs) THEN i * mss ELSE Len(bs))])

prepare_ArrayBuffer8(ob) ==
  LET pack(ret, us) ==
        IF ~HasZeroRun(us, 8)
        THEN Put(ret, "ab8", BStr(us))
        ELSE Put(Put(ret, "isl8", Arr(Islands(us, 1))), "len", Num(Len(ob.bytes)))
  IN pack(Obj(<< <<"ctr", ctrOf(ob.ctor)>> >>), Latin1(ob.bytes))

(* /[\ud800-\udbff][^\udc00-\udfff]/ or /[^\ud800-\udbff][\udc00-\udfff]/ *)
notUnicode(v) ==
  IF ~IsBin(v) THEN FALSE       \* an object is tested as the text "[object Object]"
  ELSE \/ \E i \in 1..(Len(v.u) - 1) : IsHigh(v.u[i]) /\ ~IsLow(v.u[i + 1])
       \/ \E i \in 1..(Len(v.u) - 1) : ~IsHigh(v.u[i]) /\ IsLow(v.u[i + 1])

(* the 16-bit words of the buffer as code units; null is modelled as Null *)
Words16(bs) ==
  [i \in 1..(Len(bs) \div 2) |->
     IF littleEndian THEN bs[2 * i - 1] + 256 * bs[2 * i]
     ELSE 256 * bs[2 * i - 1] + bs[2 * i]]

prepare_ArrayBuffer16(ob) ==
  LET pack(ret, us) ==
        IF ~HasZeroRun(us, 4)
        THEN Put(ret, "ab16", BStr(us))
        ELSE Put(Put(ret, "isl16", Arr(Islands(us, 1))), "len", Num(Len(ob.bytes)))
      extraByte(ret, us) ==
        IF 2 * Len(us) # Len(ob.bytes)
        THEN Put(ret, "eb", Num(ob.bytes[Len(ob.bytes)]))
        ELSE ret
      words(ret, us) == extraByte(pack(ret, us), us)
      unicode(ret) ==
        IF Has(ret, "ab16") /\ Get(ret, "ab16").u # <<>> /\ notUnicode(Get(ret, "ab16"))
        THEN Null
        ELSE IF Has(ret, "isl16")
                  /\ \E i \in DOMAIN Get(ret, "isl16").el :
                        notUnicode(Get(ret, "isl16").el[i])
        THEN Null
        ELSE ret
  IN unicode(words(Obj(<< <<"ctr", ctrOf(ob.ctor)>> >>), Words16(ob.bytes)))

(* [po, err]: JSON.stringify of the naive form throws on bigint elements *)
prepare_ArrayBuffer(k, h, ob) ==
  LET hasNaive == k.tune \in {"speed", "size"} \/ Len(ob.bytes) < k.typedArrayPackThreshold
      JSONLen(j) == IF j.ok /\ j.v # Undefined THEN JSONLength(j.v.text) ELSE 0
      smallest(naive, ab8, ab16, naiveJSONLen, ab8JSONLen, ab16JSONLen) ==
        IF ab16 # Null /\ ab16JSONLen < ab8JSONLen
             /\ (~hasNaive \/ ab16JSONLen < naiveJSONLen)
        THEN [po |-> ab16, err |-> ""]
        ELSE IF hasNaive /\ naiveJSONLen < ab8JSONLen THEN [po |-> naive, err |-> ""]
        ELSE [po |-> ab8, err |-> ""]
      sized(naive, nj, ab8, ab16) ==
        smallest(naive, ab8, ab16, JSONLen(nj),
                 JSONLen(JSON_stringify(h, ab8)), JSONLen(JSON_stringify(h, ab16)))
      packed(naive, nj, ab8) ==
        IF hasNaive /\ k.tune = "speed" THEN [po |-> naive, err |-> ""]
        ELSE IF hasNaive /\ ~nj.ok
        THEN [po |-> Undefined, err |-> "TypeError: Do not know how to serialize a BigInt"]
        ELSE IF k.tune # "size"
        THEN [po |-> ab8, err |-> ""]   \* naive.length < ab8.length compares undefined
        ELSE sized(naive, nj, ab8, prepare_ArrayBuffer16(ob))
      tried(naive) == packed(naive, JSON_stringify(h, naive), prepare_ArrayBuffer8(ob))
  IN tried(Obj(<< <<"ctr", Num(ctorIndex(ob.ctor))>>,
                  <<"arg", Arr(ViewElements(ob.ctor, ob.bytes))>> >>))

---------------------------------------------------------------------------
(* Numeric/Primitive Classifier and the scalar encoders *)

Digit == <<"0", "1", "2", "3", "4", "5", "6", "7", "8", "9">>
RECURSIVE NatChars(_)
NatChars(n) == IF n < 10 THEN <<Digit[n + 1]>> ELSE NatChars(n \div 10) \o <<Digit[(n % 10) + 1]>>
IntChars(n) == IF n < 0 THEN <<"-">> \o NatChars(0 - n) ELSE NatChars(n)

(* n + '' *)
ToStringChars(v) ==
  CASE v.t = "number" /\ "n" \in DOMAIN v -> IntChars(v.n)
    [] v.t = "number" -> Chars(v.x)
    [] v.t = "bigint" -> IntChars(v.g)
    [] v.t = "null" -> Chars("null")
    [] v.t = "undefined" -> Chars("undefined")
    [] IsText(v) -> v.s
    [] OTHER -> <<>>

prepare_bigint(n) == Obj(<< <<"bigint", Str(ToStringChars(n))>> >>)

prepare_number(n) ==
  IF ~IsFinite(n) THEN Obj(<< <<"number", Str(ToStringChars(n))>> >>)
  ELSE IF n = NegZero THEN Obj(<< <<"json", Str(Chars("-0"))>> >>)
  ELSE n

(* typeof po is 'undefined' inside prepare$primitive: always the raw form *)
prepare_primitive(primitive) == Obj(<< <<"raw", primitive>> >>)

prepare_undefined == Obj(<< <<"undefined", Bool(TRUE)>> >>)

(* seen.concat(o): an array argument is spread into its elements *)
concat(h, seen, o) ==
  IF IsLive(h, o) /\ h[o.r].ctor = "Array"
  THEN seen \o ArrayElements(h[o.r])
  ELSE Append(seen, o)

RECURSIVE isPrimitiveLike(_, _, _)
isPrimitiveLike(h, o, seen) ==
  IF o.t \in {"null", "string", "boolean"} THEN TRUE
  ELSE IF o.t = "number" THEN IsFinite(o)
  ELSE IF TypeOf(h, o) # "object" THEN FALSE
  ELSE LET ob == h[o.r] IN
    IF ob.ctor = "Object" /\ Len(ob.kv) = 0 THEN TRUE
    ELSE IF ob.ctor = "Array" /\ ob.len = 0 /\ Len(ob.kv) = 0 THEN TRUE
    ELSE IF ob.ctor \notin {"Object", "Array"} THEN FALSE
    ELSE IF ob.ctor = "Array" /\ Len(ob.kv) # ob.len THEN FALSE
    ELSE LET seen1 == concat(h, seen, o) IN
         \A i \in DOMAIN ob.kv :
            /\ indexOf(seen1, ob.kv[i][2]) = -1
            /\ isPrimitiveLike(h, ob.kv[i][2], seen1)

(* Serialize an instance of Error: the property values are stored as they are *)
prepare_Error(ob) ==
  LET own(p) == IF HasKey(ob.hidden, p) THEN GetKey(ob.hidden, p) ELSE GetKey(ob.kv, p)
      std == SelectSeq(<<"code", "stack", "lineNumber", "fileName">>,
                       LAMBDA p : HasKey(ob.hidden, p) \/ HasKey(ob.kv, p))
      RECURSIVE fill(_, _, _)
      fill(ps, keys, i) == IF i > Len(keys) THEN ps
                           ELSE fill(PutKey(ps, keys[i], own(keys[i])), keys, i + 1)
      ps == fill(fill(<<>>, std, 1), [i \in DOMAIN ob.kv |-> ob.kv[i][1]], 1)
  IN Obj(<< <<"ctr", Str(Chars("Error"))>>, <<"ps", Obj(ps)>>,
            <<"arg", Str(ob.message)>> >>)

prepare_RegExp(ob) ==
  Obj(<< <<"ctr", Num(ctorIndex(ob.ctor))>>,
         <<"arg", Str(SubSeq(ob.str, 2, Len(ob.str) - 1))>> >>)

prepare_boxedPrimitive(ob) ==
  Obj(<< <<"ctr", Num(ctorIndex(ob.ctor))>>, <<"arg", Str(ob.str)>> >>)

---------------------------------------------------------------------------
(* Graph Walker (Preparer) and Array Codec, encoder.  A result is the      *)
(* prepared node, the Visited Table and heap after the call, and the       *)
(* message of the error raised ("" when none).                             *)

POk(po, seen, h) == [po |-> po, seen |-> seen, h |-> h, err |-> ""]
PThrow(msg)      == [po |-> Undefined, seen |-> <<>>, h |-> <<>>, err |-> msg]

SeenNode(i) == Obj(<< <<"seen", Num(i)>> >>)

(* the test that guards "multiple inheritance is not supported" *)
multipleInheritance(h, v) ==
  /\ IsLive(h, v)
  /\ h[v.r].ctor \notin {"", "Object", "Function"}
  /\ h[v.r].odd

Keys(kv) == [i \in DOMAIN kv |-> kv[i][1]]

(* the own index keys from idx on that follow one another: for (k = idx; ...) *)
RECURSIVE RunLength(_, _)
RunLength(kv, idx) == IF HasKey(kv, IdxKey(idx)) THEN 1 + RunLength(kv, idx + 1) ELSE 0

RECURSIVE prepare(_, _, _, _)
RECURSIVE prepareProps(_, _, _, _, _, _)
RECURSIVE denseScan(_, _, _, _, _, _, _, _)
RECURSIVE denseScan_nested(_, _, _, _, _, _, _, _)
RECURSIVE sparseScan(_, _, _, _, _, _)

(* prepare$Array, lines 742-817 *)
prepare_Array(k, h, seen, ob) ==
  LET length(d, sp) ==
        IF sp.err # "" THEN sp
        ELSE IF Len(d.arr) + d.lstTotal # ob.len
        THEN POk(Put(sp.po, "len", Num(ob.len)), sp.seen, sp.h)
        ELSE sp
      keys(d, pa) ==
        length(d, IF Len(ob.kv) # ob.len
                  THEN sparseScan(k, d.h, d.seen, ob, 0, pa)
                  ELSE POk(pa, d.seen, d.h))
      dense(d) ==
        IF d.err # "" THEN PThrow(d.err)
        ELSE keys(d, Obj(<< <<"arr", Arr(d.arr)>> >>))
  IN dense(denseScan(k, h, seen, ob, 0, <<>>, Undefined, 0))

(* the same loop with a marker written for every repeat, none incremented *)
denseScan_nested(k, h, seen, ob, i, arr, lastJson, lstTotal) ==
  LET stop(err) ==
        [arr |-> arr, seen |-> seen, h |-> h, lstTotal |-> lstTotal, err |-> err]
      compress(r, arr1, n, json) ==
        IF ~json.ok THEN stop("TypeError: JSON.stringify")
        ELSE denseScan_nested(k, r.h, r.seen, ob, i + 1,
               IF json.v # lastJson THEN arr1
               ELSE [arr1 EXCEPT ![n] = Obj(<< <<"lst", Num(1)>> >>)],
               IF json.v # lastJson THEN json.v ELSE lastJson,
               lstTotal)
      push(r) ==
        IF r.err # "" THEN stop(r.err)
        ELSE compress(r, Append(arr, r.po), Len(arr) + 1, JSON_stringify(r.h, r.po))
      element(v) ==
        push(IF TypeOf(h, v) # "object" /\ isPrimitiveLike(h, v, seen)
             THEN POk(v, seen, h)
             ELSE prepare(k, h, seen, v))
  IN IF i >= ob.len \/ ~HasKey(ob.kv, IdxKey(i))
     THEN stop("")
     ELSE element(GetKey(ob.kv, IdxKey(i)))

(* the loop over the contiguous indices 0.., with run-length compression *)
denseScan(k, h, seen, ob, i, arr, lastJson, lstTotal) ==
  LET stop(err) ==
        [arr |-> arr, seen |-> seen, h |-> h, lstTotal |-> lstTotal, err |-> err]
      compress(r, arr1, n, json) ==
        IF ~json.ok THEN stop("TypeError: JSON.stringify")
        ELSE denseScan(k, r.h, r.seen, ob, i + 1,
               IF json.v # lastJson THEN arr1
               ELSE IF Has(arr1[n - 1], "lst")
               THEN [SubSeq(arr1, 1, n - 1) EXCEPT
                       ![n - 1] = Put(@, "lst", Num(Get(@, "lst").n + 1))]
               ELSE [arr1 EXCEPT ![n] = Obj(<< <<"lst", Num(1)>> >>)],
               IF json.v # lastJson THEN json.v ELSE lastJson,
               IF json.v = lastJson /\ Has(arr1[n - 1], "lst")
               THEN lstTotal + 1 ELSE lstTotal)
      push(r) ==
        IF r.err # "" THEN stop(r.err)
        ELSE compress(r, Append(arr, r.po), Len(arr) + 1, JSON_stringify(r.h, r.po))
      element(v) ==
        push(IF TypeOf(h, v) # "object" /\ isPrimitiveLike(h, v, seen)
             THEN POk(v, seen, h)
             ELSE prepare(k, h, seen, v))
  IN IF i >= ob.len \/ ~HasKey(ob.kv, IdxKey(i))
     THEN stop("")
     ELSE element(GetKey(ob.kv, IdxKey(i)))

(* the loop over Object.keys(o) of a sparse array or one with own properties *)
sparseScan(k, h, seen, ob, j, pa) ==
  LET key == ob.kv[j + 1][1]
      idx == KeyIdx(key)
      push(q, x) == Put(q, "isl", Arr(Append(Get(q, "isl").el, x)))
      (* a run of n >= scanArrayThreshold elements is prepared as an array *)
      nested(tmp, n, pa1, island) ==
        IF tmp.err # "" THEN tmp
        ELSE sparseScan(k, tmp.h, tmp.seen, ob, j + n,
                        IF Has(tmp.po, "arr")
                        THEN push(pa1, Put(island, "arr", tmp.po))
                        ELSE push(push(pa1, island), island))
      run(n, els, pa1, island) ==
        IF n >= k.scanArrayThreshold
        THEN nested(prepare(k, Append(h, HArray(n, [i \in 1..n |-> <<IdxKey(i - 1), els[i]>>])),
                            seen, Ref(Len(h) + 1)),
                    n, pa1, island)
        ELSE sparseScan(k, h, seen, ob, j + n, push(pa1, island))
      island(n, els) ==
        run(n, els, IF Has(pa, "isl") THEN pa ELSE Put(pa, "isl", Arr(<<>>)),
            Obj(<< <<"@", Num(idx)>>, <<"arr", Arr(els)>> >>))
      islandOf(n) == island(n, [i \in 1..n |-> GetKey(ob.kv, IdxKey(idx + i - 1))])
      set(r, pa1) ==
        IF r.err # "" THEN r
        ELSE sparseScan(k, r.h, r.seen, ob, j + 1,
                        Put(pa1, "ps", Put(Get(pa1, "ps"), key, r.po)))
      property(v) ==
        set(IF TypeOf(h, v) # "object" /\ isPrimitiveLike(h, v, seen)
            THEN POk(v, seen, h)
            ELSE prepare(k, h, seen, v),
            IF Has(pa, "ps") THEN pa ELSE Put(pa, "ps", Obj(<<>>)))
  IN IF j >= Len(ob.kv) THEN POk(pa, seen, h)
     ELSE IF IsIdxKey(key) /\ idx < j /\ idx < Len(Get(pa, "arr").el)
     THEN sparseScan(k, h, seen, ob, j + 1, pa)
     ELSE IF IsIdxKey(key) /\ HasKey(ob.kv, IdxKey(idx + 1))
     THEN islandOf(RunLength(ob.kv, idx))
     ELSE property(ob.kv[j + 1][2])

(* the walk over the own enumerable properties, lines 693-729 *)
prepareProps(k, h, seen, ob, i, po) ==
  LET prop == ob.kv[i][1]
      next(r) ==
        IF r.err # "" THEN r
        ELSE prepareProps(k, r.h, r.seen, ob, i + 1, PutKey(po, prop, r.po))
      walk(v, ty, x) ==
        IF ty \in {"function", "object"} /\ v # Null
        THEN IF multipleInheritance(h, v)
             THEN PThrow("Cannot serialize property - multiple inheritance is not supported.")
             ELSE IF x = -1 THEN next(prepare(k, h, seen, v))
             ELSE next(POk(SeenNode(x), seen, h))
        ELSE IF ty \in {"object", "number"}       \* null falls through to case 'number'
        THEN next(POk(prepare_number(v), seen, h))
        ELSE IF ty \in {"boolean", "string"}
        THEN next(POk(prepare_primitive(v), seen, h))
        ELSE IF ty = "undefined"
        THEN next(POk(prepare_undefined, seen, h))
        ELSE PThrow("TypeError: Cannot serialize property which is a " \o ty)
      property(v) == walk(v, TypeOf(h, v), indexOf(seen, v))
  IN IF i > Len(ob.kv) THEN POk(Obj(po), seen, h)
     ELSE property(ob.kv[i][2])

(* prepare, lines 597-732 *)
prepare(k, h, seen, o) ==
  LET seen1 == Append(seen, o)
      ob    == h[o.r]
      packed(r) == IF r.err # "" THEN PThrow(r.err) ELSE POk(r.po, seen1, h)
      props(ret, r) ==
        IF r.err # "" THEN r ELSE POk(Put(ret, "ps", r.po), r.seen, r.h)
      arg(ret) ==
        IF ob.json # NoToJSON THEN Put(ret, "arg", ob.json)
        ELSE IF ob.ctor # "Object" THEN Put(ret, "arg", Str(ob.str))
        ELSE ret
      fnName(ret) ==
        arg(IF ob.ctor \in FunctionCtors THEN Put(ret, "fnName", Str(ob.name)) ELSE ret)
      object(x) ==
        IF x # -1 THEN POk(SeenNode(x), seen, h)
        (* value types below here can be used as targets of cycles *)
        ELSE IF ob.ctor = "Array" THEN prepare_Array(k, h, seen1, ob)
        ELSE IF ob.ctor \in ViewCtors THEN packed(prepare_ArrayBuffer(k, h, ob))
        ELSE IF ob.ctor \in BoxedCtors THEN POk(prepare_boxedPrimitive(ob), seen1, h)
        ELSE IF ob.ctor = "RegExp" THEN POk(prepare_RegExp(ob), seen1, h)
        ELSE IF ob.ctor = "Promise" THEN POk(Obj(<< <<"resolve", o>> >>), seen1, h)
        ELSE IF ob.ctor \in ErrorCtors THEN POk(prepare_Error(ob), seen1, h)
        ELSE IF ob.ctor = "" \/ ~ob.hasOwn
        THEN POk(prepare_undefined, seen1, h)  \* KVIN Warning: missing .constructor
                                               \* or missing .hasOwnProperty
        ELSE props(fnName(Obj(<< <<"ctr", ctrOf(ob.ctor)>>, <<"ps", Obj(<<>>)>> >>)),
                   prepareProps(k, h, seen1, ob, 1, <<>>))
  IN IF o.t = "number" THEN POk(prepare_number(o), seen, h)
     ELSE IF o.t = "bigint" THEN POk(prepare_bigint(o), seen, h)
     ELSE IF isPrimitiveLike(h, o, seen)
             /\ (~(IsLive(h, o) /\ h[o.r].ctor = "Array") \/ h[o.r].len < k.scanArrayThreshold)
     THEN POk(prepare_primitive(o), seen, h)
     ELSE IF o.t = "undefined" THEN POk(prepare_undefined, seen, h)
     ELSE object(indexOf(seen, o))

(* marshal, lines 1011-1013: the envelope, the heap and the Visited Table *)
(* the walk left behind, and the message of the error raised                *)
marshal(k, h, v) ==
  LET envelope(r) ==
        IF r.err # "" THEN [env |-> Undefined, h |-> h, seen |-> <<>>, err |-> r.err]
        ELSE [env |-> Obj(<< <<"_serializeVerId", k.serializeVerId>>, <<"what", r.po>> >>),
              h |-> r.h, seen |-> r.seen, err |-> ""]
  IN envelope(prepare(k, h, <<>>, v))

(* serialize, lines 1117-1119: the text, with the heap and the Visited      *)
(* Table the walk left behind                                              *)
serialize(k, h, v) ==
  LET text(m, j) ==
        IF ~j.ok THEN [text |-> Undefined, h |-> h, seen |-> <<>>,
                       err |-> "TypeError: JSON.stringify"]
        ELSE [text |-> j.v, h |-> m.h, seen |-> m.seen, err |-> ""]
      stringify(m) ==
        IF m.err # "" THEN [text |-> Undefined, h |-> h, seen |-> <<>>, err |-> m.err]
        ELSE text(m, JSON_stringify(m.h, m.env))
  IN stringify(marshal(k, h, v))


(* marshalAsync, lines 1024-1083, for Promises that all fulfil: the walk   *)
(* over the own keys of a node of the marshalled tree.  A child that is a  *)
(* { resolve: X } memo with X a Promise gets the envelope of the value X   *)
(* fulfils with; every child that is an object is then walked in turn.     *)
(* The live objects a tree may hold (a Promise left in an island) have no  *)
(* own property that holds a memo, and are left as they are.               *)
RECURSIVE marshalAsync(_, _, _)
RECURSIVE traverseAsync(_, _, _, _)

AOk(po, h) == [po |-> po, h |-> h, err |-> ""]
AThrow(msg, h) == [po |-> Undefined, h |-> h, err |-> msg]

IsPromiseMemo(h, x) ==
  /\ Has(x, "resolve")
  /\ IsLive(h, Get(x, "resolve"))
  /\ h[Get(x, "resolve").r].ctor = "Promise"

traverseAsync(k, h, node, i) ==
  LET child == IF node.t = "obj" THEN node.kv[i][2] ELSE node.el[i]
      set(x) == IF node.t = "obj" THEN [node EXCEPT !.kv[i][2] = x]
                ELSE [node EXCEPT !.el[i] = x]
      next(r) == IF r.err # "" THEN r ELSE traverseAsync(k, r.h, set(r.po), i + 1)
      walk(r) == IF r.err # "" THEN r ELSE next(traverseAsync(k, r.h, r.po, 1))
      memo(x, m) == IF m.err # "" THEN AThrow(m.err, m.h)
                    ELSE AOk(Put(x, "resolve", m.po), m.h)
      resolved(x) ==
        IF IsPromiseMemo(h, x)
        THEN memo(x, marshalAsync(k, h, h[Get(x, "resolve").r].settled))
        ELSE AOk(x, h)
  IN IF node.t \notin {"obj", "arr"} THEN AOk(node, h)
     ELSE IF i > (IF node.t = "obj" THEN Len(node.kv) ELSE Len(node.el)) THEN AOk(node, h)
     ELSE IF child.t \in {"obj", "arr"} THEN walk(resolved(child))
     ELSE traverseAsync(k, h, node, i + 1)

marshalAsync(k, h, value) ==
  LET marshalled(m) == IF m.err # "" THEN AThrow(m.err, h)
                       ELSE traverseAsync(k, m.h, m.env, 1)
  IN marshalled(marshal(k, h, value))

(* serializeAsync, lines 1127-1129 *)
serializeAsync(k, h, v) ==
  LET text(m, j) ==
        IF ~j.ok THEN [text |-> Undefined, h |-> h, seen |-> <<>>,
                       err |-> "TypeError: JSON.stringify"]
        ELSE [text |-> j.v, h |-> m.h, seen |-> <<>>, err |-> ""]
      stringify(m) ==
        IF m.err # "" THEN [text |-> Undefined, h |-> h, seen |-> <<>>, err |-> m.err]
        ELSE text(m, JSON_stringify(m.h, m.po))
  IN stringify(marshalAsync(k, h, v))

---------------------------------------------------------------------------
(* Reconstructor (Unpreparer).  Its state st is the heap of the values     *)
(* built so far, the Visited Table, and a log of what was evaluated and    *)
(* constructed.  A result carries the value and the message of the error   *)
(* raised ("" when none).                                                  *)

UOk(v, st)      == [val |-> v, st |-> st, err |-> ""]
UThrow(msg, st) == [val |-> Undefined, st |-> st, err |-> msg]
St0             == [h |-> <<>>, seen |-> <<>>, log |-> <<>>]

(* the property key a value names in seen[po.seen] and in                  *)
(* seen.hasOwnProperty(po.seen): the text of the value                     *)
RECURSIVE PropertyKey(_)
PropertyKey(v) ==
  LET RECURSIVE join(_, _)
      join(el, i) ==
        IF i > Len(el) THEN <<>>
        ELSE (IF i > 1 THEN <<",">> ELSE <<>>)
               \o (IF el[i].t \in {"null", "undefined"} THEN <<>> ELSE PropertyKey(el[i]))
               \o join(el, i + 1)
  IN CASE v.t = "number" /\ "n" \in DOMAIN v -> IntChars(v.n)
       [] v.t = "number" /\ v.x = "-0" -> <<"0">>
       [] v.t = "number" -> Chars(v.x)
       [] v.t = "string" /\ "s" \in DOMAIN v -> v.s
       [] v.t = "null" -> Chars("null")
       [] v.t = "boolean" -> IF v.b THEN Chars("true") ELSE Chars("false")
       [] v.t = "arr" -> join(v.el, 1)
       [] OTHER -> <<"[","o","b","j","e","c","t"," ","O","b","j","e","c","t","]">>

(* the own property of the array seen that a key names: an index below its *)
(* length, "length", or none                                               *)
OwnIndex(seen, key) ==
  IF \E n \in 0..(Len(seen) - 1) : key = NatChars(n)
  THEN (CHOOSE n \in 0..(Len(seen) - 1) : key = NatChars(n)) + 1
  ELSE 0

(* an array of the parsed text, as an object with an identity *)
HeapArray(el)   == HArray(Len(el), [i \in DOMAIN el |-> <<IdxKey(i - 1), el[i]>>])
Alloc(st, ob)   == [st EXCEPT !.h = Append(@, ob)]
Newest(st)      == Ref(Len(st.h))
PushSeen(st, v) == [st EXCEPT !.seen = Append(@, v)]
Logged(st, e)   == [st EXCEPT !.log = Append(@, e)]

IdChar      == {"A","B","C","D","E","F","G","H","I","J","K","L","M","N","O","P","Q",
                "R","S","T","U","V","W","X","Y","Z",
                "a","b","c","d","e","f","g","h","i","j","k","l","m","n","o","p","q",
                "r","s","t","u","v","w","x","y","z", "_", "$",
                "0","1","2","3","4","5","6","7","8","9"}
DigitChar   == {"0","1","2","3","4","5","6","7","8","9"}

(* po.ctr.match(/^[A-Za-z_0-9$][A-Za-z_0-9$]*$/), line 222 *)
ValidCtorName(cs) == cs # <<>> /\ \A i \in DOMAIN cs : cs[i] \in IdChar

(* po.ctr.match(/^[1-9][0-9]*$/), lines 300, 440, 480 *)
AllDigits(cs) ==
  cs # <<>> /\ cs[1] \in DigitChar \ {"0"} /\ \A i \in DOMAIN cs : cs[i] \in DigitChar

DigitValue(c) == (CHOOSE i \in 1..10 : Digit[i] = c) - 1
RECURSIVE ParseNat(_)
ParseNat(cs) ==
  IF cs = <<>> THEN 0 ELSE 10 * ParseNat(SubSeq(cs, 1, Len(cs) - 1)) + DigitValue(cs[Len(cs)])
IsNatText(cs) == cs # <<>> /\ \A i \in DOMAIN cs : cs[i] \in DigitChar

(* unprepare$number: parseFloat *)
unprepare_number(arg) ==
  IF ~IsText(arg) THEN NaN
  ELSE IF arg.s = Chars("Infinity") THEN PosInf
  ELSE IF arg.s = Chars("-Infinity") THEN NegInf
  ELSE IF IsNatText(arg.s) THEN Num(ParseNat(arg.s))
  ELSE IF Len(arg.s) > 1 /\ arg.s[1] = "-" /\ IsNatText(Tail(arg.s))
       THEN (IF ParseNat(Tail(arg.s)) = 0 THEN NegZero ELSE Num(0 - ParseNat(Tail(arg.s))))
  ELSE NaN                      \* "NaN", "null" and anything that is no number

(* unprepare$bigint: BigInt(arg); Undefined stands for the SyntaxError *)
unprepare_bigint(arg) ==
  IF IsText(arg) /\ IsNatText(arg.s) THEN BigInt(ParseNat(arg.s))
  ELSE IF IsText(arg) /\ Len(arg.s) > 1 /\ arg.s[1] = "-" /\ IsNatText(Tail(arg.s))
       THEN BigInt(0 - ParseNat(Tail(arg.s)))
  ELSE Undefined

(* JSON.parse(po.json) of the one text the encoder stores there, and of numerals *)
ParseJsonText(arg) == unprepare_number(arg)

(* The global bindings eval can reach by name: constructors *)
GlobalCtors == {ctors[i] : i \in DOMAIN ctors} \cup {"Date", "Map", "BigInt64Array", "Buffer",
                                                   "TypeError", "RangeError"}
NameOfChars(cs) ==
  IF cs # <<>> /\ \E nm \in GlobalCtors \cup {"MyClass"} : Chars(nm) = cs
  THEN CHOOSE nm \in GlobalCtors \cup {"MyClass"} : Chars(nm) = cs
  ELSE ""

---------------------------------------------------------------------------
(* Constructing values at decode time *)

(* o[key] = v on a heap object: integer keys enumerate first, in ascending *)
(* order; an array grows to hold an index                                  *)
Reorder(kv) ==
  LET idxs == SelectSeq([i \in 1..(MaxIndex + 1) |-> i - 1],
                        LAMBDA i : HasKey(kv, IdxKey(i)))
  IN [j \in DOMAIN idxs |-> <<IdxKey(idxs[j]), GetKey(kv, IdxKey(idxs[j]))>>]
     \o SelectSeq(kv, LAMBDA e : ~IsIdxKey(e[1]))

SetProp(ob, key, v) ==
  [ob EXCEPT !.kv = Reorder(PutKey(@, key, v)),
             !.len = IF ob.ctor = "Array" /\ IsIdxKey(key) /\ KeyIdx(key) >= @
                     THEN KeyIdx(key) + 1 ELSE @]

(* a.length = n *)
SetLength(ob, n) ==
  [ob EXCEPT !.len = n,
             !.kv = SelectSeq(@, LAMBDA e : ~IsIdxKey(e[1]) \/ KeyIdx(e[1]) < n)]

Assign(st, r, key, v) == [st EXCEPT !.h[r.r] = SetProp(@, key, v)]

ToBoolean(v) ==
  CASE v.t \in {"undefined", "null"} -> FALSE
    [] v.t = "boolean" -> v.b
    [] v.t = "number" -> v \notin {Num(0), NegZero, NaN}
    [] v.t = "string" -> IF IsText(v) THEN v.s # <<>> ELSE v.u # <<>>
    [] OTHER -> TRUE

(* the source of new RegExp(pattern): a / that no backslash precedes is    *)
(* written \/, so that toString() reads back as the same expression        *)
RECURSIVE EscapeSlashes(_)
EscapeSlashes(cs) ==
  IF cs = <<>> THEN <<>>
  ELSE IF Head(cs) = "\\" /\ Len(cs) > 1
       THEN <<cs[1], cs[2]>> \o EscapeSlashes(SubSeq(cs, 3, Len(cs)))
  ELSE IF Head(cs) = "/" THEN <<"\\", "/">> \o EscapeSlashes(Tail(cs))
  ELSE <<Head(cs)>> \o EscapeSlashes(Tail(cs))

(* new C(arg) or new C(): [ok, st, val].  Every construction is logged. *)
Construct(st, nm, hasArg, arg) ==
  LET new(st1, a, str) ==
      LET made(ob) == [ok |-> TRUE, st |-> Alloc(st1, ob), val |-> Newest(Alloc(st1, ob))]
          fail == [ok |-> FALSE, st |-> st1, val |-> Undefined]
      IN
        CASE nm = "Object" ->
               IF a.t = "string" THEN made([HBase EXCEPT !.ctor = "String", !.prim = a,
                                                         !.str = str])
               ELSE IF a.t = "number" THEN made([HBase EXCEPT !.ctor = "Number", !.prim = a,
                                                              !.str = str])
               ELSE IF a.t = "boolean" THEN made([HBase EXCEPT !.ctor = "Boolean", !.prim = a])
               ELSE IF a.t = "obj" THEN made(HObject(a.kv))
               ELSE made(HObject(<<>>))
          [] nm \in ViewCtors ->
               IF a.t = "arr" /\ nm = "BigInt64Array" /\ \E i \in DOMAIN a.el : a.el[i].t # "bigint"
               THEN fail                  \* TypeError: Cannot convert to a BigInt
               ELSE IF a.t = "arr" THEN made(HView(nm, ViewFromList(nm, a.el)))
               ELSE IF a.t = "number" /\ "n" \in DOMAIN a /\ a.n >= 0
                    THEN made(HView(nm, [i \in 1..(a.n * BYTES_PER_ELEMENT(nm)) |-> 0]))
               ELSE made(HView(nm, <<>>))
          [] nm = "RegExp" ->
               made([HBase EXCEPT !.ctor = "RegExp",
                                  !.str = <<"/">> \o (IF hasArg /\ str # <<>>
                                                      THEN EscapeSlashes(str)
                                                      ELSE <<"(", "?", ":", ")">>) \o <<"/">>])
          [] nm = "Number" ->
               made([HBase EXCEPT !.ctor = nm,
                                  !.prim = IF ~hasArg THEN Num(0)
                                           ELSE IF a.t = "string" THEN unprepare_number(a)
                                           ELSE ToNumber(a),
                                  !.str = str])
          [] nm = "String" ->
               made([HBase EXCEPT !.ctor = nm,
                                  !.prim = Str(IF hasArg THEN str ELSE <<>>),
                                  !.str = IF hasArg THEN str ELSE <<>>])
          [] nm = "Boolean" ->
               made([HBase EXCEPT !.ctor = nm, !.prim = Bool(ToBoolean(a)),
                                  !.str = IF ToBoolean(a) THEN <<"t","r","u","e">>
                                          ELSE <<"f","a","l","s","e">>])
          [] nm = "Array" ->
               IF a.t = "number" /\ "n" \in DOMAIN a /\ a.n >= 0 THEN made(HArray(a.n, <<>>))
               ELSE IF hasArg THEN made(HArray(1, << <<IdxKey(0), a>> >>))
               ELSE made(HArray(0, <<>>))
          [] nm \in FunctionCtors ->      \* new Function(body): a callable from text
               [ok |-> TRUE,
                st |-> Alloc(Logged(st1, <<"Function", a>>),
                             HFunction(<<"a","n","o","n","y","m","o","u","s">>, str, <<>>)),
                val |-> Ref(Len(st.h) + 1)]
          [] nm \in ErrorCtors ->
               made([HBase EXCEPT !.ctor = nm,
                                  !.message = IF hasArg THEN str ELSE <<>>])
          [] nm = "Date" ->
               made([HBase EXCEPT !.ctor = nm, !.json = IF hasArg THEN a ELSE Str(<<"n","o","w">>)])
          [] nm = "Promise" -> fail       \* TypeError: resolver is not a function
          [] nm \in {"URL", "Map"} ->
               IF nm = "URL" /\ IsText(a) /\ a.s # <<>>
               THEN made([HBase EXCEPT !.ctor = nm, !.json = a, !.str = a.s])
               ELSE IF nm = "Map" /\ ~hasArg THEN made([HBase EXCEPT !.ctor = nm])
               ELSE fail                  \* TypeError: Invalid URL / not an entry object
          [] OTHER -> made([HBase EXCEPT !.ctor = nm])
      argument(a) == new(Logged(st, <<"new", nm, IF hasArg THEN <<arg>> ELSE <<>> >>),
                         a, ToStringChars(a))
  IN argument(IF hasArg THEN arg ELSE Undefined)

---------------------------------------------------------------------------
(* Reconstructor (Unpreparer), lines 212-523.  k is the codec instance.    *)

(* the validation of po.ctr, lines 219-237: the message raised, "" if none *)
ctrCheck(k, po) ==
  LET ctr == Get(po, "ctr") IN
  IF ctr.t = "string"
  THEN IF IsText(ctr) /\ ValidCtorName(ctr.s) THEN ""
       ELSE IF k.constructorAllowlist # Undefined
               /\ indexOf(k.constructorAllowlist.el, ctr) = -1
            THEN "Allowlist does not include constructor"
            ELSE "Invalid constructor name"
  ELSE IF ctr.t = "number"
  THEN IF ctr = NegZero \/ ("n" \in DOMAIN ctr /\ ctr.n >= 0 /\ ctr.n < Len(ctors))
       THEN "" ELSE "Invalid constructor number"
  ELSE "Invalid constructor label type"

(* this.ctors[po.ctr]: the name of the constructor, "" for undefined *)
ctorAt(ctr) ==
  LET at(i) == IF i + 1 \in DOMAIN ctors THEN ctors[i + 1] ELSE ""
  IN at(IF ctr.t = "string" /\ IsText(ctr) /\ AllDigits(ctr.s) THEN ParseNat(ctr.s)
        ELSE IF ctr.t = "number" /\ "n" \in DOMAIN ctr THEN ctr.n
        ELSE IF ctr = NegZero THEN 0
        ELSE -1)

(* the constructor lookup, lines 300-307 and 440-444: [nm, st]; eval of the *)
(* label is logged; nm = "" when what comes back is not a constructor       *)
lookup(k, st, po, user) ==
  LET named(ctr, nm) ==
        IF user /\ nm # "" /\ nm \in k.userCtors
        THEN [nm |-> nm, st |-> st]
        ELSE [nm |-> IF nm \in GlobalCtors THEN nm ELSE "",
              st |-> Logged(st, <<"eval", ctr>>)]
      constructor(ctr) ==
        IF ctr.t = "string" /\ ~(IsText(ctr) /\ AllDigits(ctr.s))
        THEN named(ctr, IF IsText(ctr) THEN NameOfChars(ctr.s) ELSE "")
        ELSE [nm |-> ctorAt(ctr), st |-> st]
  IN constructor(IF Has(po, "ctr") THEN Get(po, "ctr") ELSE Undefined)

(* the elements an array-like shows through [i] and .length *)
Listed(v) ==
  CASE v.t = "arr" -> v.el
    [] IsText(v) -> [i \in DOMAIN v.s |-> Str(<<v.s[i]>>)]
    [] IsBin(v) -> [i \in DOMAIN v.u |-> BStr(<<v.u[i]>>)]
    [] OTHER -> <<>>

(* the code units of a string, for charCodeAt; text is below 128 here *)
Units(v) == IF IsBin(v) THEN v.u ELSE IF IsText(v) THEN [i \in DOMAIN v.s |-> 63] ELSE <<>>

(* a[i] for 0 <= i < a.length, holes reading as undefined *)
HeapElements(ob) ==
  [i \in 1..ob.len |-> IF HasKey(ob.kv, IdxKey(i - 1)) THEN GetKey(ob.kv, IdxKey(i - 1))
                       ELSE Undefined]

RECURSIVE SetAll(_, _, _, _)
SetAll(ob, at, els, i) ==
  IF i > Len(els) THEN ob ELSE SetAll(SetProp(ob, IdxKey(at + i - 1), els[i]), at, els, i + 1)

(* lines 399-408: grow the array when it is short, then write els at index at *)
Splice(ob, at, els) ==
  IF Len(els) - 3 <= _vm_fun_maxargs
  THEN LET grown == IF Len(els) > 0 /\ ob.len < at + Len(els)
                    THEN SetLength(ob, at + Len(els)) ELSE ob
       IN IF at >= grown.len
          THEN SetAll(grown, grown.len, els, 1)     \* splice clamps its start
          ELSE SetAll(grown, at, els, 1)
  ELSE SetAll(ob, at, els, 1)

(* the writes of code units into an Int8Array or Int16Array, index from 0; *)
(* a write outside the array is ignored                                     *)
RECURSIVE Poke(_, _, _, _, _)
RECURSIVE Poke_unplaced(_, _, _, _, _)

(* the same writes with the offset of the island left out of the index *)
Poke_unplaced(cells, at, us, i, mod) ==
  IF i > Len(us) THEN cells
  ELSE Poke_unplaced(IF i \in DOMAIN cells THEN [cells EXCEPT ![i] = us[i] % mod] ELSE cells,
                     at, us, i + 1, mod)

Poke(cells, at, us, i, mod) ==
  IF i > Len(us) THEN cells
  ELSE Poke(IF at + i \in DOMAIN cells THEN [cells EXCEPT ![at + i] = us[i] % mod] ELSE cells,
            at, us, i + 1, mod)

RECURSIVE PokeIslands(_, _, _, _)
PokeIslands(cells, isl, j, mod) ==
  IF j > Len(isl) THEN cells
  ELSE PokeIslands(Poke(cells, Get(isl[j], "@").n, Units(Get(isl[j], "0")), 1, mod),
                   isl, j + 1, mod)

(* new constructor(buffer, 0), lines 463 and 520 *)
ConstructView(st, nm, bytes) ==
  LET st1 == Logged(st, <<"new", nm>>) IN
  IF nm = "" THEN UThrow("TypeError: constructor is not a constructor", st)
  ELSE IF nm \in ViewCtors /\ Len(bytes) % BYTES_PER_ELEMENT(nm) # 0
  THEN UThrow("RangeError: byte length should be a multiple of the element size", st1)
  ELSE LET st2 == Alloc(st1, [HBase EXCEPT !.ctor = nm, !.bytes = bytes])
       IN UOk(Newest(st2), PushSeen(st2, Newest(st2)))

(* unprepare$ArrayBuffer8, lines 435-466 *)
unprepare_ArrayBuffer8(k, st, po) ==
  LET bytes == IF Has(po, "ab8") THEN Len(Units(Get(po, "ab8")))
               ELSE IF Has(po, "len") /\ "n" \in DOMAIN Get(po, "len") /\ Get(po, "len").n >= 0
                    THEN Get(po, "len").n ELSE 0
      fill(i8) == IF Has(po, "ab8") THEN Poke(i8, 0, Units(Get(po, "ab8")), 1, 256)
                  ELSE PokeIslands(i8, Listed(Get(po, "isl8")), 1, 256)
      view(c, i8) == ConstructView(c.st, c.nm, i8)
  IN view(lookup(k, st, po, FALSE), fill([i \in 1..bytes |-> 0]))

(* unprepare$ArrayBuffer16, lines 475-523 *)
unprepare_ArrayBuffer16(k, st, po) ==
  LET fill(i16) == IF Has(po, "ab16") THEN Poke(i16, 0, Units(Get(po, "ab16")), 1, 65536)
                   ELSE PokeIslands(i16, Listed(Get(po, "isl16")), 1, 65536)
      swap(i8) == [i \in DOMAIN i8 |->         \* the exchange at 2i and 2i + 1, i = 0, 2, ..
                     IF littleEndian THEN i8[i]
                     ELSE IF (i - 1) % 4 = 0 /\ i + 1 \in DOMAIN i8 THEN i8[i + 1]
                     ELSE IF (i - 1) % 4 = 1 THEN i8[i - 1]
                     ELSE i8[i]]
      charCode(eb) == IF Units(eb) = <<>> THEN 0 ELSE Units(eb)[1] % 256
      extraByte(i8, bytes) ==
        IF Has(po, "eb") /\ bytes > 0
        THEN [i8 EXCEPT ![bytes] = charCode(Get(po, "eb"))]
        ELSE i8
      i8Of(i16) == Flatten([i \in DOMAIN i16 |-> BytesLE(i16[i], 2)])
      buffer(bytes, words) ==
        swap(extraByte(i8Of(fill([i \in 1..words |-> 0])), bytes))
      sized(bytes) == buffer(bytes, (bytes \div 2) + (bytes % 2))
      view(c, i8) ==
        IF Has(po, "eb") /\ Get(po, "eb").t # "string"
        THEN UThrow("TypeError: po.eb.charCodeAt is not a function", c.st)
        ELSE ConstructView(c.st, c.nm, i8)
  IN view(lookup(k, st, po, FALSE),
          sized(IF Has(po, "ab16")
                THEN 2 * Len(Units(Get(po, "ab16"))) + (IF Has(po, "eb") THEN 1 ELSE 0)
                ELSE IF Has(po, "len") /\ "n" \in DOMAIN Get(po, "len")
                        /\ Get(po, "len").n >= 0
                THEN Get(po, "len").n ELSE 0))

RECURSIVE unprepare(_, _, _)
RECURSIVE unprepare_object(_, _, _)
RECURSIVE unprepare_function(_, _, _)
RECURSIVE unprepare_Array(_, _, _)
RECURSIVE applyProps(_, _, _, _, _, _)
RECURSIVE fillArray(_, _, _, _, _, _, _)
RECURSIVE repeatLast(_, _, _, _, _, _)
RECURSIVE placeIslands(_, _, _, _, _)
RECURSIVE unmarshal(_, _, _)

(* o[prop] = this.unprepare(seen, po.ps[prop]) for each prop, lines 324-330 *)
(* and 412-420; direct is the array variant, which stores scalars as found  *)
applyProps(k, st, o, ps, i, direct) ==
  LET set(prop, r) ==
        IF r.err # "" THEN r
        ELSE applyProps(k, Assign(r.st, o, prop, r.val), o, ps, i + 1, direct)
      property(prop, node) ==
        set(prop, IF direct /\ node.t \notin {"obj", "arr", "null"}
                  THEN UOk(node, st) ELSE unprepare(k, st, node))
  IN IF ps.t # "obj" \/ i > Len(ps.kv) THEN UOk(o, st)
     ELSE property(ps.kv[i][1], ps.kv[i][2])

(* unprepare$object with the Visited Table append moved behind the loop    *)
(* that applies the captured properties                                    *)
unprepare_object_late(k, st, po) ==
  LET push(n, r) == IF r.err # "" THEN r ELSE UOk(n.val, PushSeen(r.st, n.val))
      props(n) ==
        IF ~n.ok THEN UThrow("TypeError: new constructor", n.st)
        ELSE push(n, IF Has(po, "ps")
                     THEN applyProps(k, n.st, n.val, Get(po, "ps"), 1, FALSE)
                     ELSE UOk(n.val, n.st))
      new(c) ==
        IF c.nm = "" THEN UThrow("TypeError: constructor is not a constructor", c.st)
        ELSE props(Construct(c.st, c.nm, Has(po, "arg"),
                             IF Has(po, "arg") THEN Get(po, "arg") ELSE Undefined))
  IN new(lookup(k, st, po, TRUE))

(* unprepare$object, lines 296-333 *)
unprepare_object(k, st, po) ==
  LET props(o, st1) ==
        IF Has(po, "ps") THEN applyProps(k, st1, o, Get(po, "ps"), 1, FALSE)
        ELSE UOk(o, st1)
      push(n) ==
        IF ~n.ok THEN UThrow("TypeError: new constructor", n.st)
        ELSE props(n.val, PushSeen(n.st, n.val))
      new(c) ==
        IF c.nm = "" THEN UThrow("TypeError: constructor is not a constructor", c.st)
        ELSE push(Construct(c.st, c.nm, Has(po, "arg"),
                            IF Has(po, "arg") THEN Get(po, "arg") ELSE Undefined))
  IN new(lookup(k, st, po, TRUE))

(* unprepare$function without the test of makeFunctions: the function is   *)
(* always made from the source                                             *)
unprepare_function_made(k, st, po) ==
  LET made(st1, fn) == UOk(Ref(Len(st1.h) + 1), Alloc(st1, fn))
      source(fnName, obj, arg) ==
        made(Logged(obj.st, <<"Function", arg>>),
             HFunction(IF IsText(fnName) THEN fnName.s ELSE <<>>, ToStringChars(arg), <<>>))
      callable(fnName, po1, obj) ==
        IF obj.err # "" THEN obj
        ELSE source(fnName, obj, IF Has(po1, "arg") THEN Get(po1, "arg") ELSE Undefined)
      object(fnName, po1) == callable(fnName, po1, unprepare(k, st, po1))
  IN object(Get(po, "fnName"), Del(Put(po, "ctr", Num(ctorIndex("Object"))), "fnName"))

(* unprepare$function, lines 335-357 *)
unprepare_function(k, st, po) ==
  LET made(st1, fn) == UOk(Ref(Len(st1.h) + 1), Alloc(st1, fn))
      own(obj, p) == IF IsRef(obj.val) /\ HasKey(obj.st.h[obj.val.r].kv, p)
                     THEN GetKey(obj.st.h[obj.val.r].kv, p) ELSE Undefined
      source(fnName, obj, arg, keys) ==
        made(Logged(obj.st, <<"Function", arg>>),
             HFunction(IF IsText(fnName) THEN fnName.s ELSE <<>>, ToStringChars(arg),
                       [i \in DOMAIN keys |-> <<keys[i], own(obj, keys[i])>>]))
      callable(fnName, po1, obj) ==
        IF obj.err # "" THEN obj
        ELSE IF ~k.makeFunctions
        THEN IF IsRef(obj.val) THEN UOk(obj.val, Assign(obj.st, obj.val, "name", fnName))
             ELSE UThrow("TypeError: Cannot create property 'name'", obj.st)
        ELSE source(fnName, obj,
                    IF Has(po1, "arg") THEN Get(po1, "arg") ELSE Undefined,
                    IF Has(po1, "ps") /\ Get(po1, "ps").t = "obj"
                    THEN Keys(Get(po1, "ps").kv) ELSE <<>>)
      object(fnName, po1) == callable(fnName, po1, unprepare(k, st, po1))
  IN object(Get(po, "fnName"), Del(Put(po, "ctr", Num(ctorIndex("Object"))), "fnName"))

(* unprepare hands out po.raw itself when it is an array (line 246), and   *)
(* a copy when it is an object (lines 240-244)                             *)
IsRawArray(po) == po.t = "obj" /\ Has(po, "raw") /\ Get(po, "raw").t = "arr"

(* a.push(this.unprepare(seen, last)) lst times, lines 381-383: made is    *)
(* what unprepare returned for last the time before                        *)
repeatLast(k, st, a, last, made, n) ==
  LET push(r) ==
        IF r.err # "" THEN r
        ELSE repeatLast(k, Assign(r.st, a, IdxKey(r.st.h[a.r].len), r.val), a, last, r.val, n - 1)
  IN IF n <= 0 THEN UOk(a, st)
     ELSE push(IF IsRawArray(last) THEN UOk(made, st)
               ELSE unprepare(k, st, last))

(* the loop over po.arr, lines 378-392 *)
fillArray(k, st, a, arr, i, last, made) ==
  LET push(r, el) ==
        IF r.err # "" THEN r
        ELSE fillArray(k, Assign(r.st, a, IdxKey(r.st.h[a.r].len), r.val), a, arr, i + 1, el, r.val)
      repeated(r) ==
        IF r.err # "" THEN r ELSE fillArray(k, r.st, a, arr, i + 1, last, made)
      count(lst) == IF "n" \in DOMAIN lst THEN lst.n ELSE 0
      element(el) ==
        IF el.t = "null" THEN UThrow("TypeError: Cannot read properties of null", st)
        ELSE IF el.t \in {"obj", "arr"}
        THEN IF Has(el, "lst") /\ ToBoolean(Get(el, "lst"))
             THEN repeated(repeatLast(k, st, a, last, made, count(Get(el, "lst"))))
             ELSE push(unprepare(k, st, el), el)
        ELSE push(UOk(el, st), prepare_primitive(el))
  IN IF i > Len(arr) THEN UOk(a, st) ELSE element(arr[i])

(* the loop over po.isl, lines 394-410: a short island holds its elements   *)
(* as they are, a long one holds a prepared array                           *)
placeIslands(k, st, a, isl, i) ==
  LET splice(r, at, els) ==
        placeIslands(k, [r.st EXCEPT !.h[a.r] = Splice(@, at, els)], a, isl, i + 1)
      place(body, at, r) ==
        IF r.err # "" THEN r
        ELSE splice(r, at, IF body.t = "arr" THEN body.el
                           ELSE HeapElements(r.st.h[r.val.r]))
      island(body, at) ==
        place(body, at, IF body.t = "arr" THEN UOk(body, st)
                        ELSE unprepare_Array(k, st, body))
  IN IF i > Len(isl) THEN UOk(a, st)
     ELSE island(Get(isl[i], "arr"), Get(isl[i], "@").n)

(* unprepare$Array, lines 372-427 *)
unprepare_Array(k, st, po) ==
  LET length(a, r) ==
        IF r.err # "" THEN r
        ELSE IF Has(po, "len") /\ ToBoolean(Get(po, "len")) /\ "n" \in DOMAIN Get(po, "len")
        THEN UOk(a, [r.st EXCEPT !.h[a.r] = SetLength(@, Get(po, "len").n)])
        ELSE UOk(a, r.st)
      props(a, r) ==
        length(a, IF r.err = "" /\ Has(po, "ps")
                  THEN applyProps(k, r.st, a, Get(po, "ps"), 1, TRUE) ELSE r)
      islands(a, r) ==
        props(a, IF r.err = "" /\ Has(po, "isl")
                 THEN placeIslands(k, r.st, a, Listed(Get(po, "isl")), 1) ELSE r)
      fill(st1, a) ==
        islands(a, fillArray(k, PushSeen(st1, a), a, Listed(Get(po, "arr")), 1, Undefined, Undefined))
      array(st1) == fill(st1, Newest(st1))
  IN array(Alloc(st, HArray(0, <<>>)))

(* unprepare, lines 212-294 *)
unprepare(k, st, po) ==
  LET boxed(st1) == UOk(Newest(st1), st1)
      raw(v) == IF v.t = "obj" THEN boxed(Alloc(st, HObject(v.kv)))
                ELSE IF v.t = "arr" THEN boxed(Alloc(st, HeapArray(v.el)))
                ELSE IF IsLive(st.h, v) /\ st.h[v.r].ctor # "Array"
                THEN boxed(Alloc(st, HObject(st.h[v.r].kv)))
                ELSE UOk(v, st)
      bigint(n) == IF n = Undefined
                   THEN UThrow("SyntaxError: Cannot convert to a BigInt", st)
                   ELSE UOk(n, st)
      json(text) == IF IsText(text) THEN UOk(ParseJsonText(text), st)
                    ELSE UThrow("SyntaxError: JSON.parse", st)
      promise(st1) == UOk(Newest(st1), PushSeen(st1, Newest(st1)))
      resolve(r) ==
        IF r.err # "" THEN r
        ELSE promise(Alloc([r.st EXCEPT !.seen = st.seen],
                           [HBase EXCEPT !.ctor = "Promise", !.settled = r.val]))
      seenAt(i) ==
        IF OwnIndex(st.seen, PropertyKey(i)) # 0
        THEN UOk(st.seen[OwnIndex(st.seen, PropertyKey(i))], st)
        ELSE IF PropertyKey(i) = Chars("length") THEN UOk(Num(Len(st.seen)), st)
        ELSE UThrow("Seen-list corruption detected", st)
      node(invalid) ==
        IF invalid # "" THEN UThrow(invalid, st)
        ELSE IF Has(po, "raw") THEN raw(Get(po, "raw"))
        ELSE IF Has(po, "ptv") THEN UOk(Get(po, "ptv"), st)
        ELSE IF Has(po, "number") THEN UOk(unprepare_number(Get(po, "number")), st)
        ELSE IF Has(po, "bigint") THEN bigint(unprepare_bigint(Get(po, "bigint")))
        ELSE IF Has(po, "fnName") THEN unprepare_function(k, st, po)
        ELSE IF Has(po, "ab16") \/ Has(po, "isl16") THEN unprepare_ArrayBuffer16(k, st, po)
        ELSE IF Has(po, "ab8") \/ Has(po, "isl8") THEN unprepare_ArrayBuffer8(k, st, po)
        ELSE IF Has(po, "arr") THEN unprepare_Array(k, st, po)
        ELSE IF Has(po, "ctr") THEN unprepare_object(k, st, po)
        ELSE IF Has(po, "json") THEN json(Get(po, "json"))
        ELSE IF Has(po, "undefined") THEN UOk(Undefined, st)
        ELSE IF Has(po, "resolve")
        THEN resolve(unmarshal(k, [st EXCEPT !.seen = <<>>], Get(po, "resolve")))
        ELSE IF Has(po, "seen") THEN seenAt(Get(po, "seen"))
        ELSE UThrow("TypeError: Invalid preparation formula", st)
  IN IF po.t \in {"boolean", "number", "string"} THEN UOk(po, st)
     ELSE IF po.t \in {"null", "undefined"}
     THEN UThrow("TypeError: Cannot read properties of " \o po.t, st)
     ELSE IF po.t # "obj" THEN UThrow("TypeError: Invalid preparation formula", st)
     ELSE node(IF Has(po, "ctr") THEN ctrCheck(k, po) ELSE "")

(* unmarshal without the switch on the version tag *)
unmarshal_anyVersion(k, st, obj) ==
  IF obj.t \notin {"obj", "arr"}
  THEN UThrow("Cannot unmarshal type or null", st)
  ELSE IF ~Has(obj, "_serializeVerId") THEN UThrow("Invalid serialization format", st)
  ELSE unprepare(k, Logged(st, <<"unprepare">>),
                 IF Has(obj, "what") THEN Get(obj, "what") ELSE Undefined)

(* unmarshal, lines 1089-1111 *)
unmarshal(k, st, obj) ==
  IF obj.t \notin {"obj", "arr"}
  THEN UThrow("Cannot unmarshal type or null", st)
  ELSE IF ~Has(obj, "_serializeVerId") THEN UThrow("Invalid serialization format", st)
  ELSE IF Get(obj, "_serializeVerId") \notin {Str(<<"v", "4">>), Str(<<"v", "5">>),
                                              Str(<<"v", "6">>), Str(<<"v", "7">>)}
  THEN UThrow("Cannot unmarshal objects - please update Kvin", st)
  ELSE unprepare(k, Logged(st, <<"unprepare">>),
                 IF Has(obj, "what") THEN Get(obj, "what") ELSE Undefined)

(* deserialize, lines 1135-1140: str is a JSON text or a value of another type *)
deserialize(k, str) ==
  IF str.t # "string" THEN UThrow("Cannot deserialize type", St0)
  ELSE IF "text" \notin DOMAIN str THEN UThrow("SyntaxError: JSON.parse", St0)
  ELSE unmarshal(k, St0, JSON_parse(str))

---------------------------------------------------------------------------
(* The codec instance and the calling program.  The program holds a value  *)
(* graph, serializes it and deserializes the text; or it is handed a text  *)
(* or a node from elsewhere and decodes that.                              *)

makeFunctions == FALSE
typedArrayPackThreshold == 8
scanArrayThreshold == 8
serializeVerId == Str(<<"v", "7">>)

(* new KVIN(): the properties an instance starts with *)
KVIN == [tune |-> "default",
         makeFunctions |-> makeFunctions,
         typedArrayPackThreshold |-> typedArrayPackThreshold,
         scanArrayThreshold |-> scanArrayThreshold,
         serializeVerId |-> serializeVerId,
         constructorAllowlist |-> Undefined,
         userCtors |-> {}]

Idle == [err |-> "idle"]

(* text = kvin.serialize(what) *)
Serialize ==
  /\ pc = "start"
  /\ wire' = serialize(kvin, heap, what)
  /\ pc' = "text"
  /\ UNCHANGED <<kvin, heap, what, out>>

(* kvin.deserialize(text), when serialize returned one *)
Deserialize ==
  /\ pc = "text"
  /\ wire.err = ""
  /\ out' = deserialize(kvin, wire.text)
  /\ pc' = "done"
  /\ UNCHANGED <<kvin, heap, what, wire>>

(* envelope = kvin.marshal(what) *)
Marshal ==
  /\ pc = "value"
  /\ wire' = marshal(kvin, heap, what)
  /\ pc' = "envelope"
  /\ UNCHANGED <<kvin, heap, what, out>>

(* kvin.unmarshal(envelope) *)
Unmarshal ==
  /\ pc = "envelope"
  /\ wire.err = ""
  /\ out' = unmarshal(kvin, St0, wire.env)
  /\ pc' = "done"
  /\ UNCHANGED <<kvin, heap, what, wire>>

(* node = kvin.prepare$ArrayBuffer8(view) *)
Prepare8 ==
  /\ pc = "view"
  /\ wire' = [po |-> prepare_ArrayBuffer8(heap[what.r]), err |-> ""]
  /\ pc' = "node"
  /\ UNCHANGED <<kvin, heap, what, out>>

(* kvin.unprepare$ArrayBuffer8([], node) *)
Unprepare8 ==
  /\ pc = "node"
  /\ out' = unprepare_ArrayBuffer8(kvin, St0, wire.po)
  /\ pc' = "done"
  /\ UNCHANGED <<kvin, heap, what, wire>>

---------------------------------------------------------------------------
(* Reading a value graph: the value a path of property names leads to      *)

Missing == [t |-> "missing"]
IsObjVal(v) == v.t \in {"ref", "obj"}

RECURSIVE Walk(_, _, _)
Walk(h, v, path) ==
  IF path = <<>> THEN v
  ELSE IF IsLive(h, v) /\ HasKey(h[v.r].kv, Head(path))
       THEN Walk(h, GetKey(h[v.r].kv, Head(path)), Tail(path))
  ELSE IF v.t = "obj" /\ HasKey(v.kv, Head(path))
       THEN Walk(h, GetKey(v.kv, Head(path)), Tail(path))
  ELSE Missing

Paths(names, d) == UNION {[1..n -> names] : n \in 0..d}
Prefix(p, i) == SubSeq(p, 1, i)

---------------------------------------------------------------------------
(* Graphs of plain objects: MaxNodes objects, each with the properties foo *)
(* and bar absent, a scalar, or a reference to one of the objects          *)

MaxNodes == 2
Absent == [t |-> "absent"]
PlainNames == <<"foo", "bar">>
PlainChoices(name) ==
  {Absent, Num(1)} \cup {Ref(j) : j \in 1..MaxNodes}
    \cup (IF name = "foo" THEN {Null} ELSE {})

PlainObject(f) ==
  HObject(SelectSeq([i \in DOMAIN PlainNames |-> <<PlainNames[i], f[i]>>],
                    LAMBDA e : e[2] # Absent))

InitCycle ==
  /\ pc = "start"
  /\ kvin = KVIN
  /\ heap \in {[i \in 1..MaxNodes |-> PlainObject(g[i])] :
                 g \in [1..MaxNodes ->
                         {f \in [DOMAIN PlainNames -> PlainChoices("foo")] :
                            \A i \in DOMAIN PlainNames : f[i] \in PlainChoices(PlainNames[i])}]}
  /\ what = Ref(1)
  /\ wire = Idle
  /\ out = Idle

NextCycle == Serialize \/ Deserialize
SpecCycle == InitCycle /\ [][NextCycle]_vars

(* a node of the graph is reachable from itself: some path revisits a node *)
Cyclic(h, v) ==
  \E p \in Paths({"foo", "bar"}, MaxNodes) : \E i \in 0..(Len(p) - 1) :
     IsRef(Walk(h, v, p)) /\ Walk(h, v, Prefix(p, i)) = Walk(h, v, p)

(* the decoded graph shows the same properties along every path, objects   *)
(* where there were objects and the same scalars where there were scalars  *)
(* (a null is only required to come back as a scalar)                      *)
SameShape(h1, v1, h2, v2) ==
  \A p \in Paths({"foo", "bar"}, MaxNodes + 1) :
     LET a == Walk(h1, v1, p)
         b == Walk(h2, v2, p)
     IN /\ (a = Missing) <=> (b = Missing)
        /\ IsObjVal(a) <=> IsObjVal(b)
        /\ (~IsObjVal(a) /\ a # Null) => b = a

(* every edge back to a node already on the path leads, in the decoded     *)
(* graph, to the one object decoded for that node                          *)
BackEdgesKept(h1, v1, h2, v2) ==
  \A p \in Paths({"foo", "bar"}, MaxNodes + 1) : \A i \in 0..(Len(p) - 1) :
     (IsRef(Walk(h1, v1, p)) /\ Walk(h1, v1, Prefix(p, i)) = Walk(h1, v1, p))
       => /\ IsRef(Walk(h2, v2, p))
          /\ Walk(h2, v2, Prefix(p, i)) = Walk(h2, v2, p)

(* C1: Cycle fidelity.  For every graph of plain objects in which a node   *)
(* is reachable from itself, deserialize(serialize(obj)) succeeds and      *)
(* returns a graph of the same shape in which every back-edge points to    *)
(* the single reconstructed copy of its target.                            *)
CycleFidelity ==
  (pc = "done" /\ Cyclic(heap, what))
    => /\ out.err = ""
       /\ SameShape(heap, what, out.st.h, out.val)
       /\ BackEdgesKept(heap, what, out.st.h, out.val)

(* obj = {foo:1}; obj.bar = obj has been round-tripped and result.bar.bar.bar *)
(* is result                                                               *)
CycleFidelityWitness ==
  /\ pc = "done"
  /\ heap[1].kv = << <<"foo", Num(1)>>, <<"bar", Ref(1)>> >>
  /\ out.err = ""
  /\ IsRef(out.val)
  /\ Walk(out.st.h, out.val, <<"bar", "bar", "bar">>) = out.val
  /\ Walk(out.st.h, out.val, <<"foo">>) = Num(1)

---------------------------------------------------------------------------
(* Graphs of mixed kinds: a root object {a, b, c} whose a and b hold one   *)
(* value each of some kind, and whose c holds nothing or one more          *)
(* reference to a value already met.  Object 4 is an object that refers to *)
(* itself.                                                                 *)

Kinds == {"object", "dense", "sparse", "islands", "view", "boxed", "regex",
          "error", "function", "absent"}

OfKind(kind) ==
  CASE kind = "object" -> HObject(<< <<"up", Ref(1)>> >>)
    [] kind = "dense" -> HArray(2, << <<"0", Num(1)>>, <<"1", Ref(1)>> >>)
    [] kind = "sparse" ->
         HArray(5, << <<"0", Num(1)>>, <<"1", Num(2)>>, <<"3", Ref(1)>>, <<"p", Num(5)>> >>)
    [] kind = "islands" ->
         HArray(11, << <<"1", Ref(4)>> >>
                    \o [i \in 1..scanArrayThreshold |-> <<IdxKey(i + 2), Num(i % 2)>>])
    [] kind = "view" -> HView("Uint8Array", <<1, 2, 3>>)
    [] kind = "boxed" -> [HBase EXCEPT !.ctor = "String", !.prim = Str(<<"x">>), !.str = <<"x">>]
    [] kind = "regex" -> [HBase EXCEPT !.ctor = "RegExp", !.str = <<"/", "a", "/">>]
    [] kind = "error" -> [HBase EXCEPT !.ctor = "Error", !.message = <<"m">>]
    [] kind = "function" ->
         HFunction(<<"f">>, <<"f","u","n","c","t","i","o","n"," ","f","(",")","{","}">>, <<>>)
    [] kind = "absent" -> HNoCtor(<< <<"x", Num(1)>> >>)

InitSeen ==
  /\ pc = "start"
  /\ kvin = KVIN
  /\ \E ka \in Kinds, kb \in Kinds, c \in {Absent} \cup {Ref(j) : j \in 2..4} :
       heap = << HObject(SelectSeq(<< <<"a", Ref(2)>>, <<"b", Ref(3)>>, <<"c", c>> >>,
                                   LAMBDA e : e[2] # Absent)),
                 OfKind(ka), OfKind(kb), HObject(<< <<"self", Ref(4)>> >>) >>
  /\ what = Ref(1)
  /\ wire = Idle
  /\ out = Idle

NextSeen == Serialize \/ Deserialize
SpecSeen == InitSeen /\ [][NextSeen]_vars

(* d is what decode builds for e: a value of the same constructor, or the  *)
(* shell that stands for a function                                        *)
Reconstructs(e, d) ==
  d.ctor = (IF e.ctor \in FunctionCtors /\ ~kvin.makeFunctions THEN "String" ELSE e.ctor)

(* C2: Visited Table order invariant.  For every value graph serialize     *)
(* accepts, decode succeeds and the Visited Table appends of prepare and   *)
(* of unprepare have the same length and correspond position by position:  *)
(* the k-th entry appended at decode is the reconstruction of the k-th     *)
(* node appended at encode.                                                *)
SeenOrder ==
  (pc = "done" /\ wire.err = "")
    => /\ out.err = ""
       /\ Len(out.st.seen) = Len(wire.seen)
       /\ \A i \in DOMAIN wire.seen :
            /\ IsRef(out.st.seen[i])
            /\ Reconstructs(wire.h[wire.seen[i].r], out.st.h[out.st.seen[i].r])

---------------------------------------------------------------------------
(* Buffer views: a view of one of the element types over bytes that follow *)
(* one of a few patterns, or a Float64Array over a list of doubles, under  *)
(* each tuning mode                                                        *)

MaxBytes == 10
MaxDoubles == 2

Pattern(name, i) ==
  CASE name = "zero" -> 0
    [] name = "mixed" -> IF i % 2 = 1 THEN 1 ELSE 200
    [] name = "surrogate" -> IF i % 2 = 1 THEN 0 ELSE 216    \* the words are 0xD800
    [] name = "island" -> IF i = 1 THEN 7 ELSE 0

PatternBytes == {[i \in 1..n |-> Pattern(name, i)] :
                   name \in {"zero", "mixed", "surrogate", "island"}, n \in 0..MaxBytes}

Doubles == {F64[i][1] : i \in DOMAIN F64}
DoubleLists == UNION {[1..n -> Doubles] : n \in 0..MaxDoubles}

Views ==
  {HView(c, bs) : c \in {"Uint8Array", "Buffer"}, bs \in PatternBytes}
    \cup {HView("Uint16Array", bs) : bs \in {b \in PatternBytes : Len(b) % 2 = 0}}
    \cup {HView("Float64Array", ViewFromList("Float64Array", l)) : l \in DoubleLists}
    \cup {HView("BigInt64Array", <<1, 0, 0, 0, 0, 0, 0, 0>>)}

InitTyped ==
  /\ pc = "start"
  /\ \E tune \in {"speed", "size", "default"} : kvin = [KVIN EXCEPT !.tune = tune]
  /\ \E view \in Views : heap = <<view>>
  /\ what = Ref(1)
  /\ wire = Idle
  /\ out = Idle

NextTyped == Serialize \/ Deserialize
SpecTyped == InitTyped /\ [][NextTyped]_vars

(* C3: Typed-array byte-exactness.  For every typed array and each tuning  *)
(* mode, serialize accepts it and deserialize(serialize(t)) has the same   *)
(* constructor, the same length and byte-identical contents.               *)
ByteExact ==
  /\ pc = "text" => wire.err = ""
  /\ pc = "done" => /\ out.err = ""
                    /\ IsRef(out.val)
                    /\ out.st.h[out.val.r].ctor = heap[1].ctor
                    /\ out.st.h[out.val.r].bytes = heap[1].bytes

(* C4: Every encoding is decodable.  Whichever encoding prepare$ArrayBuffer *)
(* selects, unprepare accepts the node without raising and returns a       *)
(* buffer view of the original constructor and byte length.                *)
EveryEncodingDecodable ==
  pc = "done" => /\ out.err = ""
                 /\ IsRef(out.val)
                 /\ out.st.h[out.val.r].ctor = heap[1].ctor
                 /\ Len(out.st.h[out.val.r].bytes) = Len(heap[1].bytes)

---------------------------------------------------------------------------
(* Byte buffers for the 8-bit packing: a run of non-zero bytes, a short    *)
(* gap of zeroes, one more byte, a longer stretch of zeroes and a last     *)
(* byte; every part may be empty.  10 is a line terminator.                *)

MaxRun == 1
MaxGap == 4
MaxZeroes == 9

Zeroes(n) == [i \in 1..n |-> 0]
Runs == UNION {[1..n -> {1, 10, 255}] : n \in 0..MaxRun}
Buffers ==
  {a \o Zeroes(g) \o b \o Zeroes(z) \o c :
     a \in Runs, g \in 0..MaxGap, b \in {<<>>, <<1>>, <<10>>},
     z \in 0..MaxZeroes, c \in {<<>>, <<255>>}}

InitAB8 ==
  /\ pc = "view"
  /\ kvin = KVIN
  /\ \E b \in Buffers : heap = <<HView("Uint8Array", b)>>
  /\ what = Ref(1)
  /\ wire = Idle
  /\ out = Idle

NextAB8 == Prepare8 \/ Unprepare8
SpecAB8 == InitAB8 /\ [][NextAB8]_vars

(* the strings of code units a packed node carries *)
Segments(po) ==
  IF Has(po, "ab8") THEN <<Get(po, "ab8")>>
  ELSE [i \in DOMAIN Get(po, "isl8").el |-> Get(Get(po, "isl8").el[i], "0")]

---------------------------------------------------------------------------
(* Envelopes: scalars that the program marshals or serializes itself, and  *)
(* envelopes and texts it is given, with and without a version tag         *)

Given == [t |-> "given"]         \* the input came from elsewhere

Scalars == {Num(1), NaN, NegZero, Str(<<"x">>), Bool(TRUE), Null, Undefined, BigInt(1)}

Tags == {Str(<<"v", c>>) : c \in {"3", "4", "5", "6", "7", "8"}}
          \cup {Str(<<"7">>), Str(<<>>), Num(7), Null, Bool(TRUE)}
Supported == {Str(<<"v", c>>) : c \in {"4", "5", "6", "7"}}

Nodes == {Num(5),
          Obj(<< <<"raw", Num(1)>> >>),
          Obj(<< <<"ctr", Num(0)>>, <<"ps", Obj(<<>>)>> >>),
          Obj(<< <<"arr", Arr(<<Num(1)>>)>> >>),
          Obj(<< <<"ctr", Str(<<"D", "a", "t", "e">>)>>, <<"arg", Str(<<"x">>)>> >>)}

Envelopes ==
  {Obj(<< <<"_serializeVerId", tag>>, <<"what", node>> >>) : tag \in Tags, node \in Nodes}
    \cup {Obj(<< <<"what", node>> >>) : node \in Nodes}
    \cup {Obj(<< <<"_serializeVerId", tag>> >>) : tag \in Tags}
    \cup {Arr(<<>>), Null, Num(1), Str(<<"v", "7">>)}

InitEnvelope ==
  /\ kvin = KVIN
  /\ heap = <<>>
  /\ out = Idle
  /\ \/ /\ pc \in {"value", "start"}
        /\ what \in Scalars
        /\ wire = Idle
     \/ /\ pc = "envelope"
        /\ what = Given
        /\ \E e \in Envelopes : wire = [env |-> e, err |-> ""]
     \/ /\ pc = "text"
        /\ what = Given
        /\ \E e \in Envelopes \cup {Undefined} :
             wire = [text |-> IF e = Undefined THEN Num(1)
                              ELSE [t |-> "string", text |-> e],
                     err |-> ""]

NextEnvelope == Marshal \/ Unmarshal \/ Serialize \/ Deserialize
SpecEnvelope == InitEnvelope /\ [][NextEnvelope]_vars

(* the envelope unmarshal is handed in this state *)
EnvelopeOf(w) ==
  IF "env" \in DOMAIN w THEN w.env
  ELSE IF "text" \in DOMAIN w.text THEN JSON_parse(w.text)
  ELSE Undefined

Tagged(e) == Has(e, "_serializeVerId") /\ Get(e, "_serializeVerId") \in Supported

(* C6: Version rejection.  unmarshal and deserialize raise an error,       *)
(* without calling unprepare or constructing any part of a value, whenever *)
(* the envelope lacks the version field or carries a tag outside           *)
(* {v4, v5, v6, v7}; every envelope produced by marshal carries a tag      *)
(* inside that set.                                                        *)
VersionRejection ==
  /\ (pc = "done" /\ ~Tagged(EnvelopeOf(wire)))
       => /\ out.err # ""
          /\ out.st = St0
  /\ (pc \in {"envelope", "text"} /\ what # Given /\ wire.err = "")
       => Tagged(EnvelopeOf(wire))

(* an envelope tagged v8 around a node that names a constructor has been   *)
(* refused, nothing evaluated and nothing built                            *)
VersionRejectionWitness ==
  /\ pc = "done"
  /\ what = Given
  /\ EnvelopeOf(wire) = Obj(<< <<"_serializeVerId", Str(<<"v", "8">>)>>,
                               <<"what", Obj(<< <<"ctr", Str(<<"D", "a", "t", "e">>)>>,
                                                <<"arg", Str(<<"x">>)>> >>)>> >>)
  /\ out.err = "Cannot unmarshal objects - please update Kvin"
  /\ out.st = St0

---------------------------------------------------------------------------
(* Nodes from elsewhere: a text whose envelope holds a node with any of a  *)
(* range of constructor labels, with or without arg, fnName and ps, given  *)
(* to a codec with or without an allow-list, registered constructors and   *)
(* makeFunctions; and functions of the program itself                      *)

Labels == {Str(<<"D", "a", "t", "e">>),
           Str(<<"M", "a", "p">>),
           Str(<<"O", "b", "j", "e", "c", "t">>),
           Str(<<"M", "y", "C", "l", "a", "s", "s">>),
           Str(<<"F", "u", "n", "c", "t", "i", "o", "n">>),
           Str(<<"1", "2">>),
           Str(<<"9", "9">>),
           Str(<<"0", "x", "1", "0">>),
           Str(<<"1", "a", "b", "c">>),
           Str(<<"a", ".", "b">>),
           Str(<<>>)}
            \cup {Num(0), Num(15), Num(-1), Num(19), Absent}

CraftedNodes ==
  {Obj(SelectSeq(<< <<"ctr", ctr>>, <<"ps", ps>>, <<"fnName", fnName>>, <<"arg", arg>> >>,
                 LAMBDA e : e[2] # Absent)) :
     ctr \in Labels,
     ps \in {Absent, Obj(<< <<"p", Obj(<< <<"raw", Num(1)>> >>)>> >>)},
     fnName \in {Absent, Str(<<"f">>)},
     arg \in {Absent, Str(<<"x">>)}}

AllowLists == {Undefined, Arr(<<Str(<<"D", "a", "t", "e">>)>>), Arr(<<Str(<<"D", "a", "t", "e">>), Str(<<"a", ".", "b">>)>>)}

Functions ==
  {HFunction(<<"f">>, <<"(", ")", "=", ">", "1">>, kv) :
     kv \in {<<>>, << <<"p", Num(1)>> >>, << <<"name", Str(<<"g">>)>> >>}}

InitCrafted ==
  /\ \E list \in AllowLists, make \in BOOLEAN, user \in {{}, {"MyClass"}} :
       kvin = [KVIN EXCEPT !.constructorAllowlist = list,
                           !.makeFunctions = make,
                           !.userCtors = user]
  /\ out = Idle
  /\ \/ /\ pc = "text"
        /\ heap = <<>>
        /\ what = Given
        /\ \E node \in CraftedNodes :
             wire = [text |-> [t |-> "string",
                               text |-> Obj(<< <<"_serializeVerId", serializeVerId>>,
                                               <<"what", node>> >>)],
                     err |-> ""]
     \/ /\ pc = "start"
        /\ \E fn \in Functions : heap = <<fn>>
        /\ what = Ref(1)
        /\ wire = Idle

NextCrafted == Serialize \/ Deserialize
SpecCrafted == InitCrafted /\ [][NextCrafted]_vars

(* the node the decoder is handed in this state *)
NodeOf(w) == Get(JSON_parse(w.text), "what")

(* what the decoder evaluated as code, and what it looked up or built *)
Evaluated(st) == {i \in DOMAIN st.log : st.log[i][1] \in {"eval", "Function"}}
LookedUp(st)  == {i \in DOMAIN st.log : st.log[i][1] \in {"eval", "new"}}

(* C7: Security default.  With makeFunctions false, decoding a node that   *)
(* carries fnName evaluates no source text, and what it returns is a       *)
(* non-callable shell object whose name property equals the function      *)
(* name; a function the encoder wrote always decodes.                      *)
SecurityDefault ==
  (pc = "done" /\ ~kvin.makeFunctions /\ Has(NodeOf(wire), "fnName"))
    => /\ Evaluated(out.st) = {}
       /\ what # Given => out.err = ""
       /\ out.err = ""
            => /\ IsRef(out.val)
               /\ TypeOf(out.st.h, out.val) # "function"
               /\ HasKey(out.st.h[out.val.r].kv, "name")
               /\ GetKey(out.st.h[out.val.r].kv, "name") = Get(NodeOf(wire), "fnName")

(* a function of the program, with a name property of its own, has come    *)
(* back as a boxed string named after the function                         *)
SecurityDefaultWitness ==
  /\ pc = "done"
  /\ ~kvin.makeFunctions
  /\ what = Ref(1)
  /\ heap[1].kv = << <<"name", Str(<<"g">>)>> >>
  /\ Get(NodeOf(wire), "fnName") = Str(<<"f">>)
  /\ out.err = ""
  /\ out.st.h[out.val.r].ctor = "String"
  /\ GetKey(out.st.h[out.val.r].kv, "name") = Str(<<"f">>)
  /\ Evaluated(out.st) = {}

(* C8: Constructor allow-list.  When an allow-list is configured, unprepare *)
(* raises an error for every constructed-object node whose string          *)
(* constructor name is not on the list, before any lookup or construction  *)
(* by that name; names on the list are still subject to the syntax check.  *)
AllowListEnforced ==
  (pc = "done" /\ what = Given /\ kvin.constructorAllowlist # Undefined
     /\ Has(NodeOf(wire), "ctr") /\ Get(NodeOf(wire), "ctr").t = "string")
    => /\ indexOf(kvin.constructorAllowlist.el, Get(NodeOf(wire), "ctr")) = -1
            => (out.err # "" /\ LookedUp(out.st) = {})
       /\ ~ValidCtorName(Get(NodeOf(wire), "ctr").s)
            => (out.err # "" /\ LookedUp(out.st) = {})

(* the syntax the specification gives for constructor names *)
WellFormedName(cs) ==
  /\ cs # <<>>
  /\ cs[1] \in IdChar \ DigitChar
  /\ \A i \in DOMAIN cs : cs[i] \in IdChar

(* C9: Constructor-name syntax check.  unprepare rejects every node whose  *)
(* ctr is a string that does not match ^[A-Za-z_$][A-Za-z0-9_$]*$          *)
(* (digits first or digits only included), and no constructor is looked    *)
(* up, evaluated or invoked for such a node.                               *)
NameSyntaxChecked ==
  (pc = "done" /\ what = Given
     /\ Has(NodeOf(wire), "ctr") /\ Get(NodeOf(wire), "ctr").t = "string"
     /\ ~WellFormedName(Get(NodeOf(wire), "ctr").s))
    => /\ out.err # ""
       /\ LookedUp(out.st) = {}

---------------------------------------------------------------------------
(* Numeric edge cases: each special number as the value itself, as an      *)
(* element of an array of up to MaxLen elements, and as the property a of  *)
(* an object that is plain, holds a reference to itself, or holds a Date   *)

MaxLen == 3

Specials == {NaN, PosInf, NegInf, NegZero, BigInt(2000000001)}

ADate == [HBase EXCEPT !.ctor = "Date",
                       !.json = Str(<<"2", "0", "2", "0">>),
                       !.str = <<"2", "0", "2", "0">>]

NumericArrays ==
  {HArray(n, [i \in 1..n |-> <<IdxKey(i - 1), IF i = at THEN v ELSE fill>>]) :
     n \in 1..MaxLen, at \in 1..MaxLen, v \in Specials, fill \in {Num(1)} \cup Specials}

NumericObjects ==
  {HObject(<< <<"a", v>> >> \o rest) :
     v \in Specials,
     rest \in {<<>>, << <<"b", Num(1)>> >>, << <<"self", Ref(1)>> >>, << <<"d", Ref(2)>> >>}}

InitNumeric ==
  /\ pc = "start"
  /\ kvin = KVIN
  /\ wire = Idle
  /\ out = Idle
  /\ \/ /\ what \in Specials
        /\ heap = <<>>
     \/ /\ what = Ref(1)
        /\ \E o \in NumericArrays \cup NumericObjects : heap = <<o, ADate>>

NextNumeric == Serialize \/ Deserialize
SpecNumeric == InitNumeric /\ [][NextNumeric]_vars

(* C10: Numeric edge cases.  NaN, Infinity, -Infinity, -0 and bigint       *)
(* values round-trip exactly through serialize/deserialize as the          *)
(* top-level value, as an array element and as the value of an object      *)
(* property, plain or not: serialize accepts the value, and what is        *)
(* decoded at the same position is the same number, -0 with its sign.      *)
NumericExact ==
  /\ pc = "text" => wire.err = ""
  /\ pc = "done" =>
       /\ out.err = ""
       /\ what \in Specials => out.val = what
       /\ IsRef(what) =>
            /\ IsRef(out.val)
            /\ \A i \in DOMAIN heap[1].kv :
                 heap[1].kv[i][2] \in Specials
                   => /\ HasKey(out.st.h[out.val.r].kv, heap[1].kv[i][1])
                      /\ GetKey(out.st.h[out.val.r].kv, heap[1].kv[i][1]) = heap[1].kv[i][2]

---------------------------------------------------------------------------
(* Objects that take the generic property walk: a null property next to an *)
(* instance of a class that is not Object or Array, or next to an object   *)
(* that leads back to the root (tests/regression-number-null.simple)       *)

NullSiblings == Kinds \cup {"date"}
NullExtras == {Absent, Num(1), Undefined, Bool(TRUE), Str(<<"x">>)}

NullHolder(first, extra) ==
  HObject(SelectSeq((IF first THEN << <<"abc", Null>>, <<"def", Ref(2)>> >>
                              ELSE << <<"def", Ref(2)>>, <<"abc", Null>> >>)
                      \o << <<"ghi", extra>> >>,
                    LAMBDA e : e[2] # Absent))

InitNull ==
  /\ pc = "start"
  /\ kvin = KVIN
  /\ \E kind \in NullSiblings, first \in BOOLEAN, extra \in NullExtras :
       heap = << NullHolder(first, extra),
                 IF kind = "date" THEN ADate ELSE OfKind(kind),
                 ADate,
                 HObject(<< <<"self", Ref(4)>> >>) >>
  /\ what = Ref(1)
  /\ wire = Idle
  /\ out = Idle

NextNull == Serialize \/ Deserialize
SpecNull == InitNull /\ [][NextNull]_vars

(* C11: Null property fidelity.  When an object is encoded through the     *)
(* generic property walk, for example because it holds an instance of a    *)
(* class that is not Object or Array, serialize accepts it and its null    *)
(* own property abc is null, not NaN, in the decoded object.               *)
NullFidelity ==
  /\ pc = "text" => wire.err = ""
  /\ pc = "done" =>
       /\ out.err = ""
       /\ Walk(out.st.h, out.val, <<"abc">>) = Null

---------------------------------------------------------------------------
(* Arrays with holes and named properties: each of the first MaxSparse     *)
(* indices is a hole, undefined, a number, NaN or a Date; the array may    *)
(* have a named property p                                                 *)

MaxSparse == 4
SparseSlots == {Absent, Undefined, Num(1), NaN, Ref(2)}
SparseNamed == {Absent, Num(5), Ref(2)}

SparseArray(n, f, p) ==
  HArray(n, SelectSeq([i \in 1..n |-> <<IdxKey(i - 1), f[i]>>] \o << <<"p", p>> >>,
                      LAMBDA e : e[2] # Absent))

Range(q) == {q[i] : i \in DOMAIN q}

IsSparse(ob) == Len(ob.kv) # ob.len \/ HasKey(ob.kv, "p")

InitSparse ==
  /\ pc = "start"
  /\ kvin = KVIN
  /\ \E n \in 1..MaxSparse, p \in SparseNamed :
       \E f \in [1..n -> SparseSlots] :
          /\ heap = << SparseArray(n, f, p), ADate >>
          /\ IsSparse(heap[1])
  /\ what = Ref(1)
  /\ wire = Idle
  /\ out = Idle

NextSparse == Serialize \/ Deserialize
SpecSparse == InitSparse /\ [][NextSparse]_vars

(* the decoded value d is the value v: the same scalar, or an object of    *)
(* the same class with the same content                                    *)
SameElement(h, v, h2, d) ==
  IF IsRef(v)
  THEN /\ IsLive(h2, d)
       /\ h2[d.r].ctor = h[v.r].ctor
       /\ h2[d.r].json = h[v.r].json
  ELSE d = v

(* C12: Sparse-array structure.  For every array with holes and/or named   *)
(* properties, deserialize(serialize(a)) is an array of the same length    *)
(* with the same own index keys (a hole stays absent, an explicit          *)
(* undefined stays an own key), an equal value at every present index      *)
(* (NaN, undefined and Dates included) and the same named properties.      *)
SparseStructure ==
  /\ pc = "text" => wire.err = ""
  /\ pc = "done" =>
       /\ out.err = ""
       /\ IsLive(out.st.h, out.val)
       /\ LET a == heap[1]
              d == out.st.h[out.val.r]
          IN /\ d.ctor = "Array"
             /\ d.len = a.len
             /\ {e[1] : e \in Range(d.kv)} = {e[1] : e \in Range(a.kv)}
             /\ \A e \in Range(a.kv) :
                  HasKey(d.kv, e[1])
                    => SameElement(heap, e[2], out.st.h, GetKey(d.kv, e[1]))

---------------------------------------------------------------------------
(* Arrays of repeated values: up to MaxRepeat elements drawn from three    *)
(* objects of equal content, followed or not by a Date, which keeps the    *)
(* array from being stored raw                                             *)

MaxRepeat == 3
RepeatKinds == {"array", "object", "empty array", "empty object", "date", "nested"}

Repeated(kind) ==
  CASE kind = "array" -> HArray(1, << <<"0", Num(1)>> >>)
    [] kind = "object" -> HObject(<< <<"a", Num(1)>> >>)
    [] kind = "empty array" -> HArray(0, <<>>)
    [] kind = "empty object" -> HObject(<<>>)
    [] kind = "date" -> ADate
    [] kind = "nested" -> HArray(1, << <<"0", Ref(5)>> >>)

InitRepeat ==
  /\ pc = "start"
  /\ kvin = KVIN
  /\ \E kind \in RepeatKinds, n \in 2..MaxRepeat, tail \in BOOLEAN :
       \E f \in [1..n -> 2..4] :
          heap = << HArray(n + (IF tail THEN 1 ELSE 0),
                           [i \in 1..n |-> <<IdxKey(i - 1), Ref(f[i])>>]
                             \o (IF tail THEN << <<IdxKey(n), Ref(5)>> >> ELSE <<>>)),
                    Repeated(kind), Repeated(kind), Repeated(kind), ADate >>
  /\ what = Ref(1)
  /\ wire = Idle
  /\ out = Idle

NextRepeat == Serialize \/ Deserialize
SpecRepeat == InitRepeat /\ [][NextRepeat]_vars

(* the elements of the arr list of the node the text holds, and how many   *)
(* elements of the decoded array the first m - 1 of them stand for         *)
IsMarker(el) == el.t = "obj" /\ Has(el, "lst")
EncodedArr(text) ==
  LET node(po) == IF po.t = "obj" /\ Has(po, "arr") THEN Listed(Get(po, "arr")) ELSE <<>>
  IN node(Get(JSON_parse(text), "what"))

RECURSIVE Before(_, _)
Before(arr, m) ==
  IF m <= 1 THEN 0
  ELSE Before(arr, m - 1) + (IF IsMarker(arr[m - 1]) THEN Get(arr[m - 1], "lst").n ELSE 1)

---------------------------------------------------------------------------
(* Instances of a user-defined class registered in userCtors, without      *)
(* toJSON (tests/anon-own-method.simple): at the top or held by a plain    *)
(* object, with own properties bar and baz                                 *)

ObjectText == <<"[","o","b","j","e","c","t"," ","O","b","j","e","c","t","]">>
UserNames == <<"bar", "baz">>
UserChoices == {Absent, Undefined, Num(1), Str(<<"x">>), Ref(1), Ref(3)}

MyClass(f) ==
  [HBase EXCEPT !.ctor = "MyClass", !.str = ObjectText,
                !.kv = SelectSeq([i \in DOMAIN UserNames |-> <<UserNames[i], f[i]>>],
                                 LAMBDA e : e[2] # Absent)]

InitUser ==
  /\ pc = "start"
  /\ \E make \in BOOLEAN :
       kvin = [KVIN EXCEPT !.userCtors = {"MyClass"}, !.makeFunctions = make]
  /\ \E f \in [DOMAIN UserNames -> UserChoices] :
       heap = << HObject(<< <<"foo", Ref(2)>> >>),
                 MyClass(f),
                 HFunction(<<>>, <<"f","u","n","c","t","i","o","n","(",")","{","}">>, <<>>) >>
  /\ what \in {Ref(1), Ref(2)}
  /\ wire = Idle
  /\ out = Idle

NextUser == Serialize \/ Deserialize
SpecUser == InitUser /\ [][NextUser]_vars

(* the calls of new MyClass the decoder made, and the instance decoded     *)
Constructions(st) ==
  {i \in DOMAIN st.log : st.log[i][1] = "new" /\ st.log[i][2] = "MyClass"}
Instance(v) == IF what = Ref(2) THEN v ELSE Walk(out.st.h, v, <<"foo">>)

(* C14: User-defined class reconstruction.  An instance of a registered    *)
(* user-defined class without toKVIN and toJSON is rebuilt at decode by a  *)
(* call of the registered constructor with zero arguments, after which     *)
(* each captured own enumerable property is assigned onto the instance.    *)
UserClassRebuilt ==
  /\ pc = "text" => wire.err = ""
  /\ pc = "done" =>
       /\ out.err = ""
       /\ Constructions(out.st) # {}
       /\ \A i \in Constructions(out.st) : out.st.log[i][3] = <<>>
       /\ IsLive(out.st.h, Instance(out.val))
       /\ out.st.h[Instance(out.val).r].ctor = "MyClass"
       /\ Keys(out.st.h[Instance(out.val).r].kv) = Keys(heap[2].kv)

---------------------------------------------------------------------------
(* Instances of a registered class with a toKVIN method                    *)
(* (tests/toKVIN.simple): the hook returns constructor arguments and/or a  *)
(* property map; the instance has an own property bar                      *)

HookReturns ==
  {Obj(<< <<"args", Arr(<<Num(n)>>)>> >>) : n \in 1..3}
    \cup {Obj(<< <<"args", Arr(<<Num(1)>>)>>, <<"ps", Obj(<< <<"x", Num(2)>> >>)>> >>),
          Obj(<< <<"ps", Obj(<< <<"x", Num(2)>> >>)>> >>),
          Obj(<< <<"arg", Num(1)>> >>),
          Obj(<<>>)}

InitHook ==
  /\ pc = "start"
  /\ \E make \in BOOLEAN :
       kvin = [KVIN EXCEPT !.userCtors = {"MyClass"}, !.makeFunctions = make]
  /\ \E hook \in HookReturns, bar \in UserChoices :
       heap = << HObject(<< <<"foo", Ref(2)>> >>),
                 [MyClass(<<bar, Absent>>) EXCEPT !.toKVIN = hook],
                 HFunction(<<>>, <<"f","u","n","c","t","i","o","n","(",")","{","}">>, <<>>) >>
  /\ what \in {Ref(1), Ref(2)}
  /\ wire = Idle
  /\ out = Idle

NextHook == Serialize \/ Deserialize
SpecHook == InitHook /\ [][NextHook]_vars

(* the node the text holds for the instance *)
InstanceNode(text) ==
  LET top(po) == IF what = Ref(2) THEN po ELSE Get(Get(po, "ps"), "foo")
  IN top(Get(JSON_parse(text), "what"))

(* C15: Rich hook priority.  If the value being prepared has a toKVIN      *)
(* hook, its node is the constructor label merged with what the hook       *)
(* returned, with no arg captured from toJSON or toString and no walk of   *)
(* the own properties, and decode constructs the object from exactly the   *)
(* arguments the hook returned.                                            *)
HookPriority ==
  /\ pc = "text" =>
       /\ wire.err = ""
       /\ LET hook == heap[2].toKVIN
              po == InstanceNode(wire.text)
          IN /\ Has(po, "ctr")
             /\ \A i \in DOMAIN hook.kv : Has(po, hook.kv[i][1])
                                           /\ Get(po, hook.kv[i][1]) = hook.kv[i][2]
             /\ ~Has(hook, "arg") => ~Has(po, "arg")
             /\ ~Has(hook, "ps") => (~Has(po, "ps") \/ Get(po, "ps") = Obj(<<>>))
  /\ pc = "done" =>
       /\ out.err = ""
       /\ Constructions(out.st) # {}
       /\ \A i \in Constructions(out.st) :
            out.st.log[i][3] = (IF Has(heap[2].toKVIN, "args") THEN Get(heap[2].toKVIN, "args").el
                                ELSE IF Has(heap[2].toKVIN, "arg") THEN <<Get(heap[2].toKVIN, "arg")>>
                                ELSE <<>>)

---------------------------------------------------------------------------
(* Regular expressions (tests/regex.simple): a source and any combination  *)
(* of the flags g, i and m, at the top or held by an object                *)

RegExpSources == {<<"a">>, <<"a", "+">>, <<"a", "\\", "/", "b">>}
RegExpFlags ==
  {<<>>, <<"g">>, <<"i">>, <<"m">>, <<"g", "i">>, <<"g", "m">>, <<"i", "m">>,
   <<"g", "i", "m">>}

(* r.toString() is "/" + r.source + "/" + r.flags *)
RegExpOf(source, flags) ==
  [HBase EXCEPT !.ctor = "RegExp", !.str = <<"/">> \o source \o <<"/">> \o flags]

LastSlash(str) == CHOOSE i \in DOMAIN str : str[i] = "/" /\ \A j \in DOMAIN str : j > i => str[j] # "/"
Source(ob) == SubSeq(ob.str, 2, LastSlash(ob.str) - 1)
Flags(ob) == SubSeq(ob.str, LastSlash(ob.str) + 1, Len(ob.str))

InitRegExp ==
  /\ pc = "start"
  /\ kvin = KVIN
  /\ \E source \in RegExpSources, flags \in RegExpFlags, rule \in {Absent, Str(<<"x">>), Ref(1)} :
       heap = << HObject(SelectSeq(<< <<"rule", rule>>, <<"value", Ref(2)>> >>,
                                   LAMBDA e : e[2] # Absent)),
                 RegExpOf(source, flags) >>
  /\ what \in {Ref(1), Ref(2)}
  /\ wire = Idle
  /\ out = Idle

NextRegExp == Serialize \/ Deserialize
SpecRegExp == InitRegExp /\ [][NextRegExp]_vars

(* C16: Regular-expression round trip.  For every RegExp r, with any       *)
(* combination of flags including none, at the top or held as an object    *)
(* property, deserialize(serialize(r)) is a RegExp with the same source    *)
(* and the same flags as r.                                                *)
RegExpRoundTrip ==
  /\ pc = "text" => wire.err = ""
  /\ pc = "done" =>
       /\ out.err = ""
       /\ LET v == IF what = Ref(2) THEN out.val ELSE Walk(out.st.h, out.val, <<"value">>)
          IN /\ IsLive(out.st.h, v)
             /\ out.st.h[v.r].ctor = "RegExp"
             /\ Source(out.st.h[v.r]) = Source(heap[2])
             /\ Flags(out.st.h[v.r]) = Flags(heap[2])

---------------------------------------------------------------------------
(* Serializing what was decoded (tests/set.simple): a value of each        *)
(* supported kind, at the top or held by an object, is serialized, decoded *)
(* and serialized again by the same instance                               *)

(* again = kvin.serialize(kvin.deserialize(text)) *)
Reserialize ==
  /\ pc = "done"
  /\ out.err = ""
  /\ out' = [val |-> out.val, st |-> out.st, err |-> out.err,
             again |-> serialize(kvin, out.st.h, out.val)]
  /\ pc' = "again"
  /\ UNCHANGED <<kvin, heap, what, wire>>

AgainKinds == Kinds \cup {"date", "number", "string"}
AgainOfKind(kind) ==
  CASE kind = "date" -> ADate
    [] kind = "number" -> [HBase EXCEPT !.ctor = "Number", !.prim = Num(7), !.str = <<"7">>]
    [] kind = "string" -> HObject(<< <<"s", Str(<<"x">>)>>, <<"d", Ref(3)>> >>)
    [] OTHER -> OfKind(kind)

InitAgain ==
  /\ pc = "start"
  /\ kvin = KVIN
  /\ \E kind \in AgainKinds, more \in {Absent, Num(1), Undefined, Ref(1), Ref(3)} :
       heap = << HObject(SelectSeq(<< <<"a", Ref(2)>>, <<"b", more>> >>,
                                   LAMBDA e : e[2] # Absent)),
                 AgainOfKind(kind),
                 ADate,
                 HObject(<< <<"self", Ref(4)>> >>) >>
  /\ what \in {Ref(1), Ref(2)}
  /\ wire = Idle
  /\ out = Idle

NextAgain == Serialize \/ Deserialize \/ Reserialize
SpecAgain == InitAgain /\ [][NextAgain]_vars

(* C17: Idempotence of re-serialization.  For every value that serialize   *)
(* accepts and whose text deserialize accepts, serializing the decoded     *)
(* value with the same configuration succeeds and gives a text identical   *)
(* to the first one.                                                       *)
Idempotent ==
  pc = "again" => /\ out.again.err = ""
                  /\ out.again.text = wire.text

---------------------------------------------------------------------------
(* Values that hold Promises (tests/promise.simple): two Promises, each    *)
(* fulfilled, at the top, as properties of an object, or in the first      *)
(* MaxSlots slots of an array; text = await kvin.serializeAsync(what)      *)

SerializeAsync ==
  /\ pc = "start"
  /\ wire' = serializeAsync(kvin, heap, what)
  /\ pc' = "text"
  /\ UNCHANGED <<kvin, heap, what, out>>

MaxSlots == 3
Fulfilled(v) == [HBase EXCEPT !.ctor = "Promise", !.settled = v]

Holders ==
  {HObject(<< <<"0", Ref(2)>> >>), HObject(<< <<"0", Ref(2)>>, <<"1", Ref(3)>> >>)}
    \cup {HArray(n, [i \in 1..n |-> <<IdxKey(i - 1), f[i]>>]) :
            n \in 1..MaxSlots, f \in [1..MaxSlots -> {Ref(2), Ref(3), Num(1)}]}

InitAsync ==
  /\ pc = "start"
  /\ kvin = KVIN
  /\ \E holder \in Holders, first \in {Str(<<"h">>), Num(1), Ref(4)}, second \in {Str(<<"h">>), Num(2)} :
       heap = << holder, Fulfilled(first), Fulfilled(second), ADate >>
  /\ what \in {Ref(1), Ref(2)}
  /\ wire = Idle
  /\ out = Idle

NextAsync == SerializeAsync \/ Deserialize
SpecAsync == InitAsync /\ [][NextAsync]_vars

(* the decoded value d is a Promise that resolves to what the Promise p of *)
(* the original resolves to                                                *)
SamePromise(p, d) ==
  /\ IsLive(out.st.h, d)
  /\ out.st.h[d.r].ctor = "Promise"
  /\ SameElement(heap, heap[p.r].settled, out.st.h, out.st.h[d.r].settled)

(* C18: Deferred values.  When every Promise of the value fulfils,         *)
(* deserialize(await serializeAsync(v)) has, at each position where v      *)
(* held a Promise (the top, an object property, an array element, also     *)
(* distinct Promises in consecutive slots), a Promise that resolves to     *)
(* the round-tripped value of that same Promise.                           *)
DeferredValues ==
  /\ pc = "text" => wire.err = ""
  /\ pc = "done" =>
       /\ out.err = ""
       /\ what = Ref(2) => SamePromise(what, out.val)
       /\ what = Ref(1) =>
            \A e \in Range(heap[1].kv) :
               (IsRef(e[2]) /\ heap[e[2].r].ctor = "Promise")
                 => SamePromise(e[2], Walk(out.st.h, out.val, <<e[1]>>))

---------------------------------------------------------------------------
(* The prepared tree: a value of each kind is marshalled and the envelope  *)
(* is unmarshalled by the same program, which still holds the objects      *)

(* kvin.unmarshal(envelope), in the program that made the envelope *)
UnmarshalHere ==
  /\ pc = "envelope"
  /\ wire.err = ""
  /\ out' = unmarshal(kvin, [St0 EXCEPT !.h = wire.h], wire.env)
  /\ pc' = "done"
  /\ UNCHANGED <<kvin, heap, what, wire>>

TreeKinds == AgainKinds \cup {"island of undefined", "island of objects", "error with code",
                              "error with cause", "minus zero"}
TreeOfKind(kind) ==
  CASE kind = "island of undefined" ->
         HArray(3, << <<"0", Undefined>>, <<"1", NaN>> >>)
    [] kind = "island of objects" ->
         HArray(4, << <<"1", Ref(3)>>, <<"2", Ref(3)>> >>)
    [] kind = "error with code" ->
         [HBase EXCEPT !.ctor = "Error", !.message = <<"m">>, !.kv = << <<"code", NaN>> >>]
    [] kind = "error with cause" ->
         [HBase EXCEPT !.ctor = "Error", !.message = <<"m">>, !.kv = << <<"cause", Ref(3)>> >>]
    [] kind = "minus zero" -> HObject(<< <<"z", NegZero>> >>)
    [] OTHER -> AgainOfKind(kind)

InitTree ==
  /\ pc = "value"
  /\ kvin = KVIN
  /\ \E kind \in TreeKinds, more \in {Absent, Num(1), Ref(3)} :
       heap = << HObject(SelectSeq(<< <<"a", Ref(2)>>, <<"b", more>> >>,
                                   LAMBDA e : e[2] # Absent)),
                 TreeOfKind(kind),
                 ADate,
                 HObject(<< <<"self", Ref(4)>> >>) >>
  /\ what \in {Ref(1), Ref(2)}
  /\ wire = Idle
  /\ out = Idle

NextTree == Marshal \/ UnmarshalHere
SpecTree == InitTree /\ [][NextTree]_vars

(* what JSON can hold as it is: null, booleans, strings, finite numbers    *)
(* other than -0, and arrays and plain objects of such                     *)
RECURSIVE JSONSafe(_)
JSONSafe(v) ==
  CASE v.t \in {"null", "boolean", "string"} -> TRUE
    [] v.t = "number" -> IsFinite(v) /\ v # NegZero
    [] v.t = "obj" -> \A i \in DOMAIN v.kv : JSONSafe(v.kv[i][2])
    [] v.t = "arr" -> \A i \in DOMAIN v.el : JSONSafe(v.el[i])
    [] OTHER -> FALSE

Reparsed(h, env) ==
  LET parsed(j) == IF j.ok THEN JSON_parse(j.v) ELSE Undefined
  IN parsed(JSON_stringify(h, env))

(* C19: Prepared objects are JSON-compatible.  For every value without     *)
(* pending Promises that marshal accepts, every node and leaf of           *)
(* marshal(v) is JSON-representable (no undefined, NaN, Infinity, -0,      *)
(* bigint or live object in it), JSON.parse(JSON.stringify(marshal(v)))    *)
(* is the same tree, and unmarshal gives the same result on both.          *)
JSONCompatible ==
  (pc \in {"envelope", "done"} /\ wire.err = "") =>
     /\ JSONSafe(wire.env)
     /\ Reparsed(wire.h, wire.env) = wire.env
     /\ pc = "done" =>
          out = unmarshal(kvin, [St0 EXCEPT !.h = wire.h], Reparsed(wire.h, wire.env))

---------------------------------------------------------------------------
(* Boxed scalars: new Number(n), new String(s) and new Boolean(b), at the  *)
(* top or held by an object                                                *)

MaxBoxed == 7
BoxedNumbers == {Num(n) : n \in -1..MaxBoxed} \cup {NaN, PosInf, NegInf}
BoxedStrings == {Str(<<>>), Str(<<"x">>), Str(<<"x", "y">>), Str(<<"7">>)}

(* b.toString() of a boxed scalar is the text of its primitive value *)
Boxed(v) ==
  [HBase EXCEPT !.ctor = CASE v.t = "number" -> "Number"
                           [] v.t = "string" -> "String"
                           [] v.t = "boolean" -> "Boolean",
                !.prim = v,
                !.str = IF v.t = "boolean"
                        THEN (IF v.b THEN <<"t","r","u","e">> ELSE <<"f","a","l","s","e">>)
                        ELSE ToStringChars(v)]

InitBoxed ==
  /\ pc = "start"
  /\ kvin = KVIN
  /\ \E v \in BoxedNumbers \cup BoxedStrings \cup {Bool(TRUE), Bool(FALSE)},
        more \in {Absent, Num(1), Ref(1)} :
       heap = << HObject(SelectSeq(<< <<"a", Ref(2)>>, <<"b", more>> >>,
                                   LAMBDA e : e[2] # Absent)),
                 Boxed(v) >>
  /\ what \in {Ref(1), Ref(2)}
  /\ wire = Idle
  /\ out = Idle

NextBoxed == Serialize \/ Deserialize
SpecBoxed == InitBoxed /\ [][NextBoxed]_vars

(* C20: Boxed scalars.  For every boxed Number, String or Boolean b, both  *)
(* Boolean values included, deserialize(serialize(b)) is a boxed value of  *)
(* the same wrapper type whose primitive value equals that of b.           *)
BoxedRoundTrip ==
  /\ pc = "text" => wire.err = ""
  /\ pc = "done" =>
       /\ out.err = ""
       /\ LET v == IF what = Ref(2) THEN out.val ELSE Walk(out.st.h, out.val, <<"a">>)
          IN /\ IsLive(out.st.h, v)
             /\ out.st.h[v.r].ctor = heap[2].ctor
             /\ out.st.h[v.r].prim = heap[2].prim

---------------------------------------------------------------------------
(* Errors: an Error with a message, with or without an own stack, and with  *)
(* own properties code and info of every kind, alone or held by a graph    *)

ErrorValues == {Absent, Str(<<"E">>), Num(7), NaN, PosInf, Undefined, Null,
                Ref(1), Ref(2), Ref(3)}
ErrorStacks == {Absent, Str(<<"s">>)}

AnError(ctor, stack, code, info) ==
  [HBase EXCEPT !.ctor = ctor,
                !.message = <<"m">>,
                !.hidden = SelectSeq(<< <<"stack", stack>> >>, LAMBDA e : e[2] # Absent),
                !.kv = SelectSeq(<< <<"code", code>>, <<"info", info>> >>,
                                 LAMBDA e : e[2] # Absent)]

InitError ==
  /\ pc = "start"
  /\ kvin = KVIN
  /\ \E ctor \in ErrorCtors, stack \in ErrorStacks, code \in ErrorValues,
        info \in ErrorValues :
       heap = << HObject(<< <<"a", Ref(2)>> >>),
                 AnError(ctor, stack, code, info),
                 HObject(<< <<"k", Num(1)>> >>) >>
  /\ what \in {Ref(1), Ref(2)}
  /\ wire = Idle
  /\ out = Idle

NextError == Serialize \/ Deserialize
SpecError == InitError /\ [][NextError]_vars

(* the own property p of an object, enumerable or not *)
OwnProp(ob, p) ==
  IF HasKey(ob.hidden, p) THEN GetKey(ob.hidden, p)
  ELSE IF HasKey(ob.kv, p) THEN GetKey(ob.kv, p)
  ELSE Missing

(* the decoded property d of the decoded error e stands for the property   *)
(* value v of the error heap[2]                                            *)
SameProperty(h, top, e, v, d) ==
  IF v = Missing THEN TRUE
  ELSE IF v = Ref(1) THEN what = Ref(1) /\ d = top
  ELSE IF v = Ref(2) THEN d = e
  ELSE IF v = Ref(3) THEN IsLive(h, d) /\ h[d.r].ctor = "Object"
                          /\ h[d.r].kv = << <<"k", Num(1)>> >>
  ELSE d = v

(* C21: Error values.  For every Error-like value e,                       *)
(* deserialize(serialize(e)) succeeds and is an Error with the same        *)
(* message, the same code and stack wherever e had them as own properties, *)
(* and every own enumerable property of e with an equal value, whatever    *)
(* the kind of that value: string, finite or non-finite number, undefined, *)
(* null, nested object, or a reference back into the graph.                *)
ErrorRoundTrip ==
  /\ pc = "text" => wire.err = ""
  /\ pc = "done" =>
       /\ out.err = ""
       /\ LET e == IF what = Ref(2) THEN out.val ELSE Walk(out.st.h, out.val, <<"a">>)
          IN /\ IsLive(out.st.h, e)
             /\ out.st.h[e.r].ctor \in ErrorCtors
             /\ out.st.h[e.r].message = heap[2].message
             /\ \A p \in {"stack", "code", "info"} :
                   /\ (OwnProp(heap[2], p) = Missing) <=> (OwnProp(out.st.h[e.r], p) = Missing)
                   /\ SameProperty(out.st.h, out.val, e, OwnProp(heap[2], p),
                                   OwnProp(out.st.h[e.r], p))

---------------------------------------------------------------------------
(* Codec instances.  The program holds the module's default export and two *)
(* contexts made with new KVIN(), changes the configuration through some   *)
(* of them and parses a text with one of them.  Here kvin holds the one    *)
(* userCtors object and the other properties of each instance, and what is *)
(* the set of instances the program has made a change through.             *)

Instances == {"exports", "A", "B"}
Options == [tune : {"default", "speed"},
            makeFunctions : BOOLEAN,
            typedArrayPackThreshold : {typedArrayPackThreshold, 16},
            scanArrayThreshold : {scanArrayThreshold, 2}]

(* the configuration the methods of instance i read through this: userCtors *)
(* is found on KVIN.prototype by every instance, and was copied by          *)
(* reference to the default export                                          *)
Config(i) ==
  [KVIN EXCEPT !.tune = kvin.own[i].tune,
               !.makeFunctions = kvin.own[i].makeFunctions,
               !.typedArrayPackThreshold = kvin.own[i].typedArrayPackThreshold,
               !.scanArrayThreshold = kvin.own[i].scanArrayThreshold,
               !.userCtors = kvin.userCtors]

(* i.userCtors.MyClass = MyClass *)
Register(i) ==
  /\ pc = "config"
  /\ kvin' = [kvin EXCEPT !.userCtors = @ \cup {"MyClass"}]
  /\ what' = what \cup {i}
  /\ UNCHANGED <<pc, heap, wire, out>>

(* i.tune = ..., i.makeFunctions = ..., i.scanArrayThreshold = ... *)
Configure(i) ==
  /\ pc = "config"
  /\ \E o \in Options :
       /\ \E key \in DOMAIN o :
             \A other \in DOMAIN o \ {key} : o[other] = kvin.own[i][other]
       /\ o # kvin.own[i]
       /\ kvin' = [kvin EXCEPT !.own[i] = o]
  /\ what' = what \cup {i}
  /\ UNCHANGED <<pc, heap, wire, out>>

(* j.parse(text) *)
ParseWith(j) ==
  /\ pc = "config"
  /\ LET by(r) == [val |-> r.val, st |-> r.st, err |-> r.err, by |-> j]
     IN out' = by(deserialize(Config(j), wire.text))
  /\ pc' = "done"
  /\ UNCHANGED <<kvin, heap, what, wire>>

InitConfig ==
  /\ pc = "config"
  /\ kvin = [userCtors |-> KVIN.userCtors,
             own |-> [i \in Instances |->
                        [tune |-> KVIN.tune,
                         makeFunctions |-> KVIN.makeFunctions,
                         typedArrayPackThreshold |-> KVIN.typedArrayPackThreshold,
                         scanArrayThreshold |-> KVIN.scanArrayThreshold]]]
  /\ heap = << HObject(<< <<"foo", Ref(2)>>, <<"fn", Ref(3)>> >>),
               MyClass(<<Num(1), Absent>>),
               HFunction(<<"f">>, <<"f","u","n","c","t","i","o","n"," ","f","(",")","{","}">>, <<>>) >>
  /\ what = {}
  /\ wire = serialize([KVIN EXCEPT !.userCtors = {"MyClass"}], heap, Ref(1))
  /\ out = Idle

NextConfig ==
  \E i \in Instances : Register(i) \/ Configure(i) \/ ParseWith(i)
SpecConfig == InitConfig /\ [][NextConfig]_vars

(* C22: Configuration isolation.  After any sequence of configuration      *)
(* changes made through one KVIN instance or through the module's default  *)
(* export (registering a constructor in userCtors, setting tune, the       *)
(* thresholds or makeFunctions), the configuration observed by every other *)
(* instance is unchanged: it is the configuration of a new instance, and   *)
(* a parse by such an instance gives what a new instance gives.            *)
ConfigIsolated ==
  /\ \A j \in Instances \ what : Config(j) = KVIN
  /\ (pc = "done" /\ out.by \notin what) =>
        LET same(r) == out.err = r.err /\ out.val = r.val /\ out.st = r.st
        IN same(deserialize(KVIN, wire.text))

---------------------------------------------------------------------------
(* Values prepare skips: object 2 has no constructor (Object.create(null)) *)
(* or no hasOwnProperty (an instance of a class whose prototype hides it), *)
(* and is held by object 1 as property a, enumerated before or after the   *)
(* properties b and c; b holds object 3 and c is absent or an object       *)
(* already met                                                             *)

SkippedKinds == {"bare", "bare with x", "bare with up", "no hasOwnProperty"}
Skipped(kind) ==
  CASE kind = "bare" -> HNoCtor(<<>>)
    [] kind = "bare with x" -> HNoCtor(<< <<"x", Num(1)>> >>)
    [] kind = "bare with up" -> HNoCtor(<< <<"up", Ref(1)>> >>)
    [] kind = "no hasOwnProperty" ->
         [HBase EXCEPT !.ctor = "MyClass", !.str = ObjectText, !.hasOwn = FALSE,
                       !.kv = << <<"x", Num(1)>> >>]
HeldKinds == {"object", "dense", "error", "regex"}

InitSkipped ==
  /\ pc = "start"
  /\ kvin = KVIN
  /\ \E kind \in SkippedKinds, kb \in HeldKinds, first \in BOOLEAN,
        c \in {Absent, Ref(1), Ref(3), Ref(4)} :
       LET rest == SelectSeq(<< <<"b", Ref(3)>>, <<"c", c>>, <<"d", Ref(4)>> >>,
                             LAMBDA e : e[2] # Absent)
       IN heap = << HObject(IF first THEN << <<"a", Ref(2)>> >> \o rest
                                     ELSE rest \o << <<"a", Ref(2)>> >>),
                    Skipped(kind), OfKind(kb), HObject(<< <<"self", Ref(4)>> >>) >>
  /\ what \in {Ref(1), Ref(2)}
  /\ wire = Idle
  /\ out = Idle

NextSkipped == Serialize \/ Deserialize
SpecSkipped == InitSkipped /\ [][NextSkipped]_vars

(* the graph in which the skipped value is undefined instead *)
WithUndefined(h) ==
  [h EXCEPT ![1].kv = [i \in DOMAIN @ |->
                         IF @[i][2] = Ref(2) THEN <<@[i][1], Undefined>> ELSE @[i]]]
AsUndefined == IF what = Ref(2) THEN Undefined ELSE what

(* C23: Graceful degradation.  When prepare meets an object-like value     *)
(* with no constructor or no hasOwnProperty it raises no error and encodes *)
(* that value as the absent-value marker, and the rest of the graph is     *)
(* encoded and decodes exactly as it would if that value had been          *)
(* undefined: every back-reference elsewhere in the graph still resolves   *)
(* to the right node.                                                      *)
SkippedAsUndefined ==
  /\ pc \in {"text", "done"} =>
       /\ wire.err = ""
       /\ wire.text = serialize(kvin, WithUndefined(heap), AsUndefined).text
  /\ pc = "done" =>
       /\ out.err = ""
       /\ what = Ref(1) =>
            /\ Walk(out.st.h, out.val, <<"a">>) = Undefined
            /\ IsLive(out.st.h, Walk(out.st.h, out.val, <<"b">>))
            /\ Walk(out.st.h, out.val, <<"d", "self">>) = Walk(out.st.h, out.val, <<"d">>)
            /\ Walk(heap, what, <<"c">>) = Ref(1)
                 => Walk(out.st.h, out.val, <<"c">>) = out.val
            /\ Walk(heap, what, <<"c">>) = Ref(3)
                 => Walk(out.st.h, out.val, <<"c">>) = Walk(out.st.h, out.val, <<"b">>)
            /\ Walk(heap, what, <<"c">>) = Ref(4)
                 => Walk(out.st.h, out.val, <<"c">>) = Walk(out.st.h, out.val, <<"d">>)

---------------------------------------------------------------------------
(* Back-references from elsewhere: a text whose node is {seen: k} alone or *)
(* an object that holds up to MaxBefore plain objects a1, a2, ... and then *)
(* {seen: k} as property b, for keys k of every kind                       *)

MaxBefore == 3
SeenKeys == {Num(n) : n \in -1..(MaxBefore + 2)}
              \cup {NegZero, [t |-> "number", x |-> "1.5"], Null, Bool(TRUE),
                    Str(Chars("length")), Str(<<"0">>), Str(<<"1">>), Str(<<"0", "1">>),
                    Str(<<"x">>), Str(<<>>), Arr(<<>>), Arr(<<Num(0)>>), Obj(<<>>)}

PlainNode == Obj(<< <<"ctr", Num(0)>>, <<"ps", Obj(<<>>)>> >>)
BeforeName(j) == <<"a1", "a2", "a3", "a4", "a5">>[j]
Holding(m, k) ==
  Obj(<< <<"ctr", Num(0)>>,
         <<"ps", Obj([j \in 1..m |-> <<BeforeName(j), PlainNode>>]
                       \o << <<"b", Obj(<< <<"seen", k>> >>)>> >>)>> >>)

InitBackRef ==
  /\ pc = "text"
  /\ kvin = KVIN
  /\ heap = <<>>
  /\ \E k \in SeenKeys :
       /\ what = k
       /\ \E node \in {Obj(<< <<"seen", k>> >>)} \cup {Holding(m, k) : m \in 0..MaxBefore} :
            wire = [text |-> [t |-> "string",
                              text |-> Obj(<< <<"_serializeVerId", serializeVerId>>,
                                              <<"what", node>> >>)],
                    err |-> ""]
  /\ out = Idle

NextBackRef == Deserialize
SpecBackRef == InitBackRef /\ [][NextBackRef]_vars

(* the entries appended to the Visited Table before {seen: k} is met       *)
Appended == IF Has(NodeOf(wire), "seen") THEN 0
            ELSE Len(Get(NodeOf(wire), "ps").kv)
(* k names the entry of index j *)
IsIndex(k, j) == PropertyKey(k) = NatChars(j)

(* C24: Back-reference resolution.  unprepare of a {seen: k} node returns  *)
(* the k-th Visited Table entry when k is the index of an entry already    *)
(* appended during this decode call, and raises an error for every other   *)
(* k: negative, greater than or equal to the current table length,         *)
(* non-integer, or a non-index key of the table such as 'length'.          *)
BackRefResolved ==
  pc = "done" =>
    IF \E j \in 0..(Appended - 1) : IsIndex(what, j)
    THEN /\ out.err = ""
         /\ IsIndex(what, 0) => Walk(out.st.h, out.val, <<"b">>) = out.val
         /\ \A j \in 1..(Appended - 1) :
              IsIndex(what, j) =>
                /\ IsLive(out.st.h, Walk(out.st.h, out.val, <<"b">>))
                /\ Walk(out.st.h, out.val, <<"b">>)
                     = Walk(out.st.h, out.val, <<BeforeName(j)>>)
    ELSE out.err = "Seen-list corruption detected"

---------------------------------------------------------------------------
(* marshalAsync step by step.  The function runs from one await to the     *)
(* next: wire.frames holds the marshalled tree of each call that has not   *)
(* returned (the last is the one running), wire.awaiting the Promise each  *)
(* caller awaits, wire.pending the Promises not yet fulfilled.  Promises   *)
(* fulfil when the program that made them says so.                         *)

RECURSIVE FirstMemo(_, _, _)
RECURSIVE ReplaceFirst(_, _, _, _)
RECURSIVE MemoList(_, _, _)

Size(node) == IF node.t = "obj" THEN Len(node.kv) ELSE Len(node.el)
Child(node, i) == IF node.t = "obj" THEN node.kv[i][2] ELSE node.el[i]
SetChild(node, i, x) == IF node.t = "obj" THEN [node EXCEPT !.kv[i][2] = x]
                        ELSE [node EXCEPT !.el[i] = x]

(* the walk of lines 1046-1079 from child i of node on: the Promise of the *)
(* first memo it meets, Undefined when it meets none                       *)
FirstMemo(h, node, i) ==
  LET or(inner) == IF inner # Undefined THEN inner ELSE FirstMemo(h, node, i + 1)
  IN IF node.t \notin {"obj", "arr"} \/ i > Size(node) THEN Undefined
     ELSE IF Child(node, i).t \notin {"obj", "arr"} THEN FirstMemo(h, node, i + 1)
     ELSE IF IsPromiseMemo(h, Child(node, i)) THEN Get(Child(node, i), "resolve")
     ELSE or(FirstMemo(h, Child(node, i), 1))

(* marshalledObject[key].resolve = env at that first memo *)
ReplaceFirst(h, node, i, env) ==
  IF node.t \notin {"obj", "arr"} \/ i > Size(node) THEN node
  ELSE IF Child(node, i).t \notin {"obj", "arr"} THEN ReplaceFirst(h, node, i + 1, env)
  ELSE IF IsPromiseMemo(h, Child(node, i))
       THEN SetChild(node, i, Put(Child(node, i), "resolve", env))
  ELSE IF FirstMemo(h, Child(node, i), 1) # Undefined
       THEN SetChild(node, i, ReplaceFirst(h, Child(node, i), 1, env))
  ELSE ReplaceFirst(h, node, i + 1, env)

Top(frames) == frames[Len(frames)]
MaxDepth == 4

(* marshalAsync(value): line 1036, this.marshal(value) *)
CallAsync ==
  /\ pc = "start"
  /\ LET called(m) ==
           IF m.err # ""
           THEN /\ pc' = "failed"
                /\ out' = [err |-> m.err]
                /\ UNCHANGED <<heap, wire>>
           ELSE /\ pc' = "running"
                /\ wire' = [wire EXCEPT !.frames = <<m.env>>]
                /\ heap' = m.h
                /\ out' = out
     IN called(marshal(kvin, heap, what))
  /\ UNCHANGED <<kvin, what>>

(* lines 1057-1062: the walk reaches a memo and awaits its Promise *)
AwaitNext ==
  /\ pc = "running"
  /\ FirstMemo(heap, Top(wire.frames), 1) # Undefined
  /\ wire' = [wire EXCEPT !.awaiting = Append(@, FirstMemo(heap, Top(wire.frames), 1))]
  /\ pc' = "awaiting"
  /\ UNCHANGED <<kvin, heap, what, out>>

(* the program fulfils a pending Promise *)
Fulfil(p) ==
  /\ p \in wire.pending
  /\ wire' = [wire EXCEPT !.pending = @ \ {p}]
  /\ UNCHANGED <<pc, kvin, heap, what, out>>

(* lines 1060-1062: the awaited Promise has fulfilled and its value is     *)
(* handed to a nested call of marshalAsync                                 *)
Resume ==
  /\ pc = "awaiting"
  /\ Top(wire.awaiting).r \notin wire.pending
  /\ Len(wire.frames) < MaxDepth
  /\ LET called(m) ==
           IF m.err # ""
           THEN /\ pc' = "failed"
                /\ out' = [err |-> m.err]
                /\ UNCHANGED <<heap, wire>>
           ELSE /\ pc' = "running"
                /\ wire' = [wire EXCEPT !.frames = Append(@, m.env)]
                /\ heap' = m.h
                /\ out' = out
     IN called(marshal(kvin, heap, heap[Top(wire.awaiting).r].settled))
  /\ UNCHANGED <<kvin, what>>

(* line 1082 in a nested call: the walk is over, the envelope is returned  *)
(* and stored in the memo of the caller (line 1060)                        *)
ReturnNested ==
  /\ pc = "running"
  /\ FirstMemo(heap, Top(wire.frames), 1) = Undefined
  /\ Len(wire.frames) > 1
  /\ LET n == Len(wire.frames)
     IN wire' = [wire EXCEPT
                   !.frames = Append(SubSeq(@, 1, n - 2),
                                     ReplaceFirst(heap, @[n - 1], 1, @[n])),
                   !.awaiting = SubSeq(@, 1, Len(@) - 1)]
  /\ UNCHANGED <<pc, kvin, heap, what, out>>

(* line 1082 in the first call: the Promise of marshalAsync fulfils *)
ReturnTree ==
  /\ pc = "running"
  /\ FirstMemo(heap, Top(wire.frames), 1) = Undefined
  /\ Len(wire.frames) = 1
  /\ out' = [tree |-> Top(wire.frames), err |-> ""]
  /\ pc' = "done"
  /\ UNCHANGED <<kvin, heap, what, wire>>

(* Values with Promises: object 1 holds Promise 2, and Promise 3 or a      *)
(* scalar; Promise 2 fulfils with a scalar, with object 4 or with object 1 *)
(* itself; object 4 holds a scalar or Promise 3                            *)
InitAwait ==
  /\ pc = "start"
  /\ kvin = KVIN
  /\ \E second \in {Ref(3), Num(1), Absent},
        first \in {Num(1), Str(<<"h">>), Ref(4), Ref(1)},
        third \in {Num(2), Ref(4)},
        held \in {Num(3), Ref(3)} :
       heap = << HObject(SelectSeq(<< <<"a", Ref(2)>>, <<"b", second>> >>,
                                   LAMBDA e : e[2] # Absent)),
                 Fulfilled(first), Fulfilled(third),
                 HObject(<< <<"c", held>> >>) >>
  /\ what \in {Ref(1), Ref(2)}
  /\ wire = [frames |-> <<>>, awaiting |-> <<>>, pending |-> {2, 3}, err |-> ""]
  /\ out = Idle

NextAwait ==
  \/ CallAsync
  \/ AwaitNext
  \/ \E p \in {2, 3} : Fulfil(p)
  \/ Resume
  \/ ReturnNested
  \/ ReturnTree
SpecAwait == InitAwait /\ [][NextAwait]_vars

(* the Promises of the memos of a tree, in depth-first key order *)
MemoList(h, node, i) ==
  IF node.t \notin {"obj", "arr"} \/ i > Size(node) THEN <<>>
  ELSE (IF IsPromiseMemo(h, Child(node, i)) THEN <<Get(Child(node, i), "resolve")>>
        ELSE MemoList(h, Child(node, i), 1))
         \o MemoList(h, node, i + 1)

(* C25: Sequential deferred-value resolution.  marshalAsync awaits pending *)
(* values one at a time, in the order their resolve markers occur in a     *)
(* depth-first, key-order traversal of the prepared tree: the Promise a    *)
(* call awaits is that of the first marker left in its tree.  Provided     *)
(* every Promise fulfils it terminates, which requires that no call awaits *)
(* a Promise that one of its callers is awaiting (such a call gets the     *)
(* same value to marshal and repeats what its caller did), and the tree it *)
(* returns holds no resolve marker with a pending value.                   *)
SequentialAwaits ==
  /\ pc = "awaiting" =>
       /\ Len(wire.awaiting) = Len(wire.frames)
       /\ Top(wire.awaiting) = Head(MemoList(heap, Top(wire.frames), 1))
  /\ \A i, j \in DOMAIN wire.awaiting : i < j => wire.awaiting[i] # wire.awaiting[j]
  /\ pc = "done" => MemoList(heap, out.tree, 1) = <<>>

---------------------------------------------------------------------------
(* Arrays with runs: object 1 is an array of up to MaxItems slots, each a  *)
(* hole, 1, undefined or object 2, or an array of LongItems slots made of  *)
(* a run of 1, a run of 2 and a run of 1; with or without trailing holes   *)
(* and a named property                                                    *)

MaxItems == 5
LongItems == 9
RunItems == {Absent, Num(1), Undefined, Ref(2)}

ArrayOf(f, tail, named) ==
  HArray(Len(f) + tail,
         SelectSeq([i \in DOMAIN f |-> <<IdxKey(i - 1), f[i]>>] \o << <<"p", named>> >>,
                   LAMBDA e : e[2] # Absent))

InitRuns ==
  /\ pc = "value"
  /\ kvin = KVIN
  /\ \E tail \in {0, 2}, named \in {Absent, Num(5)} :
       \/ \E n \in 1..MaxItems : \E f \in [1..n -> RunItems] :
             heap = << ArrayOf(f, tail, named), HObject(<< <<"x", Num(1)>> >>) >>
       \/ \E i \in 0..LongItems : \E j \in 0..(LongItems - i) :
             heap = << ArrayOf([x \in 1..LongItems |->
                                  IF x > i /\ x <= i + j THEN Num(2) ELSE Num(1)],
                               tail, named),
                       HObject(<< <<"x", Num(1)>> >>) >>
  /\ what = Ref(1)
  /\ wire = Idle
  /\ out = Idle

NextRuns == Marshal
SpecRuns == InitRuns /\ [][NextRuns]_vars

(* the arr list of the node prepared for object 1, when there is one *)
HasArr == pc = "envelope" /\ wire.err = "" /\ Has(Get(wire.env, "what"), "arr")
ArrList == Get(Get(wire.env, "what"), "arr").el
(* the length of the contiguous dense prefix of an array *)
DensePrefix(ob) == RunLength(ob.kv, 0)
RECURSIVE Represented(_)
Represented(arr) ==
  IF arr = <<>> THEN 0
  ELSE (IF IsMarker(Head(arr)) THEN Get(Head(arr), "lst").n ELSE 1) + Represented(Tail(arr))

(* C26: Run-length marker structure.  In the arr list produced by          *)
(* prepare$Array a repeat marker {lst: n} is never the first entry, never  *)
(* directly follows another repeat marker and has n >= 1; the number of    *)
(* non-marker entries plus the sum of all marker counts equals the length  *)
(* of the array's contiguous dense prefix, and len is emitted exactly when *)
(* that prefix is shorter than the array's length.                         *)
RunMarkers ==
  HasArr =>
    /\ \A i \in DOMAIN ArrList :
          IsMarker(ArrList[i]) =>
            /\ i > 1
            /\ ~IsMarker(ArrList[i - 1])
            /\ Get(ArrList[i], "lst").n >= 1
    /\ Represented(ArrList) = DensePrefix(heap[1])
    /\ Has(Get(wire.env, "what"), "len") <=> DensePrefix(heap[1]) < heap[1].len

(* an array whose list has two markers, one of them incremented, and len *)
RunMarkersWitness ==
  /\ HasArr
  /\ \E i, j \in DOMAIN ArrList :
        /\ i # j
        /\ IsMarker(ArrList[i]) /\ Get(ArrList[i], "lst").n >= 2
        /\ IsMarker(ArrList[j])
  /\ Has(Get(wire.env, "what"), "len")

---------------------------------------------------------------------------
(* Buffers for the 16-bit packing: a Uint16Array of up to MaxWords words,  *)
(* each a zero, a letter, a high surrogate or a low surrogate              *)

MaxWords == 6
WordUnits == {0, 65, 55296, 56320}
WordBytes(ws) == [i \in 1..(2 * Len(ws)) |->
                    IF i % 2 = 1 THEN ws[(i + 1) \div 2] % 256
                    ELSE ws[i \div 2] \div 256]

(* node = kvin.prepare$ArrayBuffer16(view) *)
Prepare16 ==
  /\ pc = "view"
  /\ wire' = [po |-> prepare_ArrayBuffer16(heap[what.r]), err |-> ""]
  /\ pc' = "node"
  /\ UNCHANGED <<kvin, heap, what, out>>

InitAB16 ==
  /\ pc = "view"
  /\ kvin = KVIN
  /\ \E n \in 1..MaxWords : \E ws \in [1..n -> WordUnits] :
       heap = <<HView("Uint16Array", WordBytes(ws))>>
  /\ what = Ref(1)
  /\ wire = Idle
  /\ out = Idle

NextAB16 == Prepare16
SpecAB16 == InitAB16 /\ [][NextAB16]_vars

(* the strings of code units a 16-bit node carries *)
Segments16(po) ==
  IF Has(po, "ab16") THEN <<Get(po, "ab16")>>
  ELSE [i \in DOMAIN Get(po, "isl16").el |-> Get(Get(po, "isl16").el[i], "0")]

(* a surrogate without its partner: a high one not followed by a low one,  *)
(* a low one not preceded by a high one                                    *)
Unpaired(us) ==
  \E i \in DOMAIN us :
     \/ IsHigh(us[i]) /\ (i = Len(us) \/ ~IsLow(us[i + 1]))
     \/ IsLow(us[i]) /\ (i = 1 \/ ~IsHigh(us[i - 1]))

(* C27: 16-bit packing surrogate safety.  prepare$ArrayBuffer16 returns    *)
(* null whenever the text it would emit, the ab16 string or any isl16      *)
(* segment, contains an unpaired UTF-16 surrogate, a high surrogate as the *)
(* last code unit or a low surrogate as the first included: it never       *)
(* returns a node whose text contains an unpaired surrogate.               *)
SurrogateSafe ==
  (pc = "node" /\ wire.po # Null)
    => \A i \in DOMAIN Segments16(wire.po) : ~Unpaired(Segments16(wire.po)[i].u)

---------------------------------------------------------------------------
(* Buffers with islands: up to MaxHead bytes, each a zero, a one or a line *)
(* terminator, then a stretch of zeroes long enough for the island form,   *)
(* then a tail                                                             *)

MaxHead == 6
Heads == UNION {[1..n -> {0, 1, 10}] : n \in 0..MaxHead}
Tails == {<<>>, <<1>>, <<1, 0, 0>>, <<10, 0, 0, 0, 1>>, <<1, 0, 0, 0, 0, 1, 0>>}

InitIslands ==
  /\ pc = "view"
  /\ kvin = KVIN
  /\ \E a \in Heads, z \in {7, 8}, c \in Tails :
       heap = <<HView("Uint8Array", a \o Zeroes(z) \o c)>>
  /\ what = Ref(1)
  /\ wire = Idle
  /\ out = Idle

NextIslands == Prepare8
SpecIslands == InitIslands /\ [][NextIslands]_vars

HasIslands == pc = "node" /\ Has(wire.po, "isl8")
Island(i) == Get(wire.po, "isl8").el[i]
IslandText(i) == Get(Island(i), "0").u
IslandAt(i) == Get(Island(i), "@").n

(* C28: Island segmentation.  Whenever prepare$ArrayBuffer8 emits isl8,    *)
(* the segments are pairwise disjoint and in increasing offset order, each *)
(* segment begins and ends with a non-zero code unit and contains no run   *)
(* of 4 or more zero units, consecutive segments are separated by at least *)
(* 4 zero units, and every non-zero byte of the buffer lies in exactly one *)
(* segment, which holds the bytes of the buffer at its offset.             *)
IslandSegmentation ==
  HasIslands =>
    LET n == Len(Get(wire.po, "isl8").el)
        bytes == heap[1].bytes
    IN /\ \A i \in 1..n :
            /\ IslandText(i) # <<>>
            /\ IslandText(i)[1] # 0
            /\ IslandText(i)[Len(IslandText(i))] # 0
            /\ ~HasZeroRun(IslandText(i), 4)
            /\ IslandAt(i) + Len(IslandText(i)) <= Len(bytes)
            /\ IslandText(i) = SubSeq(bytes, IslandAt(i) + 1,
                                      IslandAt(i) + Len(IslandText(i)))
       /\ \A i \in 1..(n - 1) :
            IslandAt(i) + Len(IslandText(i)) + 4 <= IslandAt(i + 1)
       /\ \A p \in DOMAIN bytes :
            bytes[p] # 0 =>
              Cardinality({i \in 1..n : IslandAt(i) < p
                                          /\ p <= IslandAt(i) + Len(IslandText(i))}) = 1

(* a node with three islands: one holds a gap of three zeroes, one is      *)
(* four zeroes from the next, and the last had trailing zeroes             *)
IslandSegmentationWitness ==
  /\ HasIslands
  /\ Len(Get(wire.po, "isl8").el) >= 3
  /\ \E i \in DOMAIN Get(wire.po, "isl8").el : HasZeroRun(IslandText(i), 3)
  /\ \E i \in 1..(Len(Get(wire.po, "isl8").el) - 1) :
        IslandAt(i) + Len(IslandText(i)) + 4 = IslandAt(i + 1)
  /\ heap[1].bytes[Len(heap[1].bytes)] = 0

---------------------------------------------------------------------------
(* One envelope, unmarshalled twice.  unprepare writes on the nodes it is  *)
(* given: Consumed(po) is the node po as a decode that succeeds leaves it. *)

RECURSIVE Consumed(_, _)
Consumed(h, po) ==
  LET each(kv) == [i \in DOMAIN kv |-> <<kv[i][1], Consumed(h, kv[i][2])>>]
      ps(node) ==
        IF Has(node, "ps") /\ Get(node, "ps").t = "obj"
        THEN Put(node, "ps", Obj(each(Get(node, "ps").kv)))
        ELSE node
      elements(el) ==
        [i \in DOMAIN el |-> IF IsMarker(el[i]) THEN el[i] ELSE Consumed(h, el[i])]
      RECURSIVE array(_)
      array(node) ==
        LET island(x) ==
              IF x.t = "obj" /\ Has(x, "arr") /\ Get(x, "arr").t = "obj"
              THEN Put(x, "arr", array(Get(x, "arr")))
              ELSE x
            isl(n1) ==
              IF Has(n1, "isl") /\ Get(n1, "isl").t = "arr"
              THEN Put(n1, "isl", Arr([i \in DOMAIN Get(n1, "isl").el |->
                                         island(Get(n1, "isl").el[i])]))
              ELSE n1
            arr(n1) ==
              IF Get(n1, "arr").t = "arr"
              THEN Put(n1, "arr", Arr(elements(Get(n1, "arr").el)))
              ELSE n1
        IN ps(isl(arr(node)))
      envelope(e) ==
        IF e.t = "obj" /\ Has(e, "what") THEN Put(e, "what", Consumed(h, Get(e, "what")))
        ELSE e
  IN IF po.t # "obj" THEN po
     ELSE IF Has(po, "raw")                              \* line 242: po.used = true
     THEN (IF Get(po, "raw").t = "obj"
              \/ (IsLive(h, Get(po, "raw")) /\ h[Get(po, "raw").r].ctor # "Array")
           THEN Put(po, "used", Bool(TRUE)) ELSE po)
     ELSE IF Has(po, "ptv") \/ Has(po, "number") \/ Has(po, "bigint") THEN po
     ELSE IF Has(po, "fnName")                           \* lines 340-342
     THEN Consumed(h, Del(Put(po, "ctr", Num(ctorIndex("Object"))), "fnName"))
     ELSE IF Has(po, "ab16") \/ Has(po, "isl16") \/ Has(po, "ab8") \/ Has(po, "isl8")
     THEN po
     ELSE IF Has(po, "arr") THEN array(po)
     ELSE IF Has(po, "ctr") THEN ps(po)
     ELSE IF Has(po, "json") \/ Has(po, "undefined") THEN po
     ELSE IF Has(po, "resolve") THEN Put(po, "resolve", envelope(Get(po, "resolve")))
     ELSE po

(* value = kvin.unmarshal(envelope), the envelope object kept by the caller *)
UnmarshalKept ==
  /\ pc = "envelope"
  /\ wire.err = ""
  /\ LET kept(r) ==
           /\ out' = r
           /\ wire' = IF r.err = ""
                      THEN [wire EXCEPT !.env = Put(@, "what", Consumed(wire.h, Get(@, "what")))]
                      ELSE wire
     IN kept(unmarshal(kvin, [St0 EXCEPT !.h = wire.h], wire.env))
  /\ pc' = "done"
  /\ UNCHANGED <<kvin, heap, what>>

(* kvin.unmarshal(envelope) once more, on the same envelope object *)
UnmarshalAgain ==
  /\ pc = "done"
  /\ out.err = ""
  /\ LET again(r) == out' = [val |-> out.val, st |-> out.st, err |-> out.err, again |-> r]
     IN again(unmarshal(kvin, [St0 EXCEPT !.h = wire.h], wire.env))
  /\ pc' = "again"
  /\ UNCHANGED <<kvin, heap, what, wire>>

TwiceKinds == {"object", "dense", "sparse", "view", "boxed", "regex", "function",
               "date", "number", "string", "plain", "functions"}
TwiceOfKind(kind) ==
  CASE kind = "plain" -> HObject(<< <<"x", Num(1)>>, <<"y", Str(<<"s">>)>> >>)
    [] kind = "functions" ->
         HFunction(<<"g">>, <<"(", ")", "=", ">", "1">>, << <<"p", Num(1)>> >>)
    [] OTHER -> AgainOfKind(kind)

InitTwice ==
  /\ pc = "value"
  /\ \E make \in BOOLEAN : kvin = [KVIN EXCEPT !.makeFunctions = make]
  /\ \E kind \in TwiceKinds, more \in {Absent, Num(1), Undefined, Ref(1), Ref(3)} :
       heap = << HObject(SelectSeq(<< <<"a", Ref(2)>>, <<"b", more>> >>,
                                   LAMBDA e : e[2] # Absent)),
                 TwiceOfKind(kind),
                 ADate,
                 HObject(<< <<"self", Ref(4)>> >>) >>
  /\ what \in {Ref(1), Ref(2)}
  /\ wire = Idle
  /\ out = Idle

NextTwice == Marshal \/ UnmarshalKept \/ UnmarshalAgain
SpecTwice == InitTwice /\ [][NextTwice]_vars

(* C29: Decode leaves its input unchanged.  unmarshal does not modify the  *)
(* envelope object it is given, so unmarshalling the same envelope object  *)
(* twice under the same configuration yields structurally equal results of *)
(* the same kinds, also for callable-value nodes (fnName) and raw nodes,   *)
(* with makeFunctions either off or on.                                    *)
DecodeKeepsEnvelope ==
  /\ pc \in {"done", "again"} => wire.env = marshal(kvin, heap, what).env
  /\ pc = "again" =>
       /\ out.again.err = ""
       /\ out.again.val = out.val
       /\ out.again.st.h = out.st.h

---------------------------------------------------------------------------
=============================================================================
